---------------------------- MODULE Spec2Model ----------------------------
(***************************************************************************)
(* A model of mruby-fast-json (src/src/mrb_fastjson.cpp): buffer            *)
(* preparation, the error mapper, the eager converter, the big-integer      *)
(* decoder, the lazy string extractor, the lazy Document and the encoder.   *)
(*                                                                          *)
(* Text is a sequence of bytes (0..255).  Machine integers are sequences of *)
(* 16-bit limbs, least significant first, so that 64-bit and 128-bit        *)
(* arithmetic keeps its width: a uint64_t is 4 limbs, an unsigned __int128  *)
(* is 8 limbs, and an operation that overflows drops its carry.             *)
(***************************************************************************)
EXTENDS Integers, Sequences, FiniteSets, TLC

VARIABLES
  \* Big-integer decoder (convert_big_integer_from_ondemand)
  token,              \* the digits of the raw token, after the sign
  negative,           \* v.is_negative()
  bigres,             \* the value returned, or NoValue before the call
  \* Parse / Dump
  obj,                \* the Host Value given to JSON.dump
  json,               \* the JSON text: Dump's output, or Parse's input
  symbolize_names,    \* the keyword argument of JSON.parse
  parsed,             \* what JSON.parse returned or raised
  cpc,                \* "value" | "text" | "parsed"
  \* Buffer Preparation (simdjson_safe_view_from_mrb_string)
  rstring,            \* the RString given: addr, len, capa, alloc, frozen
  zero_copy,          \* JSON.zero_copy_parsing
  mrb_debug,          \* the build defines MRB_DEBUG
  view,               \* the padded_string_view returned and the string afterwards
  \* Lazy Document (mrb_json_doc)
  need_to_reparse,    \* doc->need_to_reparse
  dpc,                \* "new" | "ready" | "failed"
  call,               \* what the last method call on the document did
  \* Lazy string extractor (convert_string_from_ondemand)
  source,             \* doc->source, the bytes of the document
  location,           \* v.current_location() - doc->buffer.data()
  utf8_string,        \* the build defines MRB_UTF8_STRING
  strres,             \* the value returned and the path taken
  \* Lazy Document sessions (a document, its cursor and a block given to array_each)
  engine,             \* what the engine answers to a lookup, by cursor
  lazy,               \* the mrb_json_doc: need_to_reparse and the cursor of doc->doc
  lpc,                \* "new" | "ready" | "callback" (inside the block) | "failed"
  left,               \* the elements array_each has still to yield
  hist,               \* the last call on the document and what went before it
  \* GC arena
  entry,              \* the method converting
  arena_idx,          \* the objects pushed on the arena since the method was entered
  frames,             \* the containers under construction, outermost first
  apc,                \* "entry" | "value" | "loop" | "attach" | "restore" | "done"
  \* JSON.load_lazy
  lsource,            \* the source given
  lcall,              \* "none" | "load_lazy" | "new"
  newres              \* how the constructor ended

bigVars   == <<token, negative, bigres>>
codecVars == <<obj, json, symbolize_names, parsed, cpc>>
bufVars   == <<rstring, zero_copy, mrb_debug, view>>
docVars   == <<need_to_reparse, dpc, call>>
strVars   == <<source, location, utf8_string, strres>>
sessVars  == <<engine, lazy, lpc, left, hist>>
arenaVars == <<entry, arena_idx, frames, apc>>
loadVars  == <<lsource, lcall, newres>>
vars      == <<bigVars, codecVars, bufVars, docVars, strVars, sessVars, arenaVars, loadVars>>

-----------------------------------------------------------------------------
(* Bytes and small helpers *)

Min(a, b) == IF a < b THEN a ELSE b
Max(a, b) == IF a > b THEN a ELSE b

RECURSIVE Concat(_)
Concat(ss) == IF ss = <<>> THEN <<>> ELSE Head(ss) \o Concat(Tail(ss))

Take(s, n) == SubSeq(s, 1, Min(n, Len(s)))
Drop(s, n) == SubSeq(s, n + 1, Len(s))

ChMinus == 45
ChZero  == 48

IsDigit(c) == c >= ChZero /\ c <= ChZero + 9

-----------------------------------------------------------------------------
(* Machine integers: little-endian sequences of 16-bit limbs *)

Base == 256 * 256

RECURSIVE Norm(_)
Norm(x) == IF x # <<>> /\ x[Len(x)] = 0 THEN Norm(SubSeq(x, 1, Len(x) - 1)) ELSE x

\* x * m + a over the limbs of x, the final carry kept as further limbs
RECURSIVE MulAddCarry(_, _, _)
MulAddCarry(x, m, carry) ==
  IF x = <<>>
    THEN IF carry = 0 THEN <<>> ELSE <<carry % Base>> \o MulAddCarry(<<>>, m, carry \div Base)
    ELSE LET t == Head(x) * m + carry
         IN  <<t % Base>> \o MulAddCarry(Tail(x), m, t \div Base)

\* unbounded x * m + a
BigMulAdd(x, m, a) == Norm(MulAddCarry(x, m, a))

\* the low n limbs of x (x reduced modulo 2^(16 n)), zero-extended to n limbs
RECURSIVE Zeros(_)
Zeros(n) == IF n <= 0 THEN <<>> ELSE <<0>> \o Zeros(n - 1)

Fixed(x, n) == IF Len(x) >= n THEN SubSeq(x, 1, n) ELSE x \o Zeros(n - Len(x))

\* x * m + a in an n-limb unsigned register: the carry out of the top limb is lost
WrapMulAdd(x, m, a, n) == Fixed(MulAddCarry(x, m, a), n)

\* long division of x by the small divisor d, from the top limb down
RECURSIVE DivSmallFrom(_, _, _, _)
DivSmallFrom(x, d, i, rem) ==
  IF i = 0 THEN [q |-> <<>>, r |-> rem]
  ELSE LET t    == rem * Base + x[i]
           rest == DivSmallFrom(x, d, i - 1, t % d)
       IN  [q |-> Append(rest.q, t \div d), r |-> rest.r]

DivSmall(x, d) == DivSmallFrom(x, d, Len(x), 0).q
ModSmall(x, d) == DivSmallFrom(x, d, Len(x), 0).r

\* -1, 0, 1 as x < y, x = y, x > y; x and y of the same length
RECURSIVE CmpFrom(_, _, _)
CmpFrom(x, y, i) ==
  IF i = 0 THEN 0
  ELSE IF x[i] < y[i] THEN -1
  ELSE IF x[i] > y[i] THEN 1
  ELSE CmpFrom(x, y, i - 1)

Cmp(x, y) ==
  LET n == Max(Len(x), Len(y)) IN CmpFrom(Fixed(x, n), Fixed(y, n), n)

BigZero == <<>>
Pow2(k) == Zeros(k \div 16) \o <<2 ^ (k % 16)>>

RECURSIVE AllOnes(_)
AllOnes(n) == IF n <= 0 THEN <<>> ELSE <<Base - 1>> \o AllOnes(n - 1)

\* the decimal digits (as bytes) of the unsigned x, no leading zeros, "0" for zero
RECURSIVE ToDecimal(_)
ToDecimal(x) ==
  LET nx == Norm(x)
  IN  IF nx = <<>> THEN <<ChZero>>
      ELSE IF Len(nx) = 1 /\ nx[1] < 10 THEN <<ChZero + nx[1]>>
      ELSE Append(ToDecimal(DivSmall(nx, 10)), ChZero + ModSmall(nx, 10))

\* the exact value of a run of decimal digits, of any length
RECURSIVE DecValFrom(_, _)
DecValFrom(ds, acc) ==
  IF ds = <<>> THEN acc
  ELSE LET next == BigMulAdd(acc, 10, Head(ds) - ChZero)
       IN  IF Len(next) >= 0 THEN DecValFrom(Tail(ds), next) ELSE next

DecVal(ds) == DecValFrom(ds, BigZero)

-----------------------------------------------------------------------------
(* Host Values.  One record shape for every kind:                           *)
(*   t    the mruby type: "nil" "true" "false" "int" "bigint" "str" "sym"   *)
(*        "array" "hash", and "raise" for a raised exception                *)
(*   neg, mag   an Integer: sign and magnitude                              *)
(*   s    the bytes of a String or Symbol                                   *)
(*   c    the elements of an Array; the key, value, key, value ... of a Hash*)
(*   e    the class of a raised exception                                   *)

Blank    == [t |-> "nil", neg |-> FALSE, mag |-> <<>>, s |-> <<>>, c |-> <<>>, e |-> ""]
NoValue  == [Blank EXCEPT !.t = "none"]
Nil      == Blank
True     == [Blank EXCEPT !.t = "true"]
False    == [Blank EXCEPT !.t = "false"]
Str(b)   == [Blank EXCEPT !.t = "str", !.s = b]
Sym(b)   == [Blank EXCEPT !.t = "sym", !.s = b]
Arr(es)  == [Blank EXCEPT !.t = "array", !.c = es]
Hash(kv) == [Blank EXCEPT !.t = "hash", !.c = kv]
Raise(cls) == [Blank EXCEPT !.t = "raise", !.e = cls]

IsRaise(v) == v.t = "raise"

\* An Integer of mruby: MRB_TT_INTEGER holds an mrb_int (int64_t, MRB_64BIT);
\* a value outside that range is a big integer (MRB_TT_BIGINT, mruby-bigint).
FitsInt64(neg, mag) ==
  IF neg THEN Cmp(mag, Pow2(63)) <= 0 ELSE Cmp(mag, Pow2(63)) < 0

Integer(neg, mag) ==
  LET m == Norm(mag)
      n == neg /\ m # <<>>
  IN  [Blank EXCEPT !.t = IF FitsInt64(n, m) THEN "int" ELSE "bigint",
                    !.neg = n, !.mag = m]

\* two's complement negation in an n-limb register
RECURSIVE Complement(_)
Complement(x) == IF x = <<>> THEN <<>> ELSE <<Base - 1 - Head(x)>> \o Complement(Tail(x))

NegateFixed(x, n) == Fixed(MulAddCarry(Complement(Fixed(x, n)), 1, 1), n)

TopBit(x, n) == x[n] >= Base \div 2

\* mrb_convert_number on an unsigned machine integer of n limbs
mrb_convert_number_unsigned(x, n) == Integer(FALSE, Fixed(x, n))

\* mrb_convert_number on a signed (two's complement) machine integer of n limbs
mrb_convert_number_signed(x, n) ==
  IF TopBit(Fixed(x, n), n) THEN Integer(TRUE, NegateFixed(Fixed(x, n), n))
                            ELSE Integer(FALSE, Fixed(x, n))

-----------------------------------------------------------------------------
(* Big-Integer Decoder *)

U64Limbs  == 4
U128Limbs == 8
MaxU128Digits == 39

\* parse_decimal_to_u128 with the overflow test removed: the accumulator wraps
RECURSIVE AccumulateNoCheck(_, _)
AccumulateNoCheck(digits, acc) ==
  IF digits = <<>> THEN [ok |-> TRUE, out |-> acc]
  ELSE LET d == Head(digits) - ChZero
       IN  IF d < 0 \/ d > 9 THEN [ok |-> FALSE, out |-> Fixed(<<>>, U128Limbs)]
           ELSE LET next == WrapMulAdd(acc, 10, d, U128Limbs)
                IN  IF Len(next) >= 0 THEN AccumulateNoCheck(Tail(digits), next) ELSE [ok |-> FALSE, out |-> next]

\* the while loop of parse_decimal_to_u128: one digit per turn
RECURSIVE Accumulate(_, _)
Accumulate(digits, acc) ==
  LET U128_MAX    == AllOnes(U128Limbs)
      LIMIT       == Fixed(DivSmall(U128_MAX, 10), U128Limbs)
      LIMIT_DIGIT == ModSmall(U128_MAX, 10)
  IN  IF digits = <<>> THEN [ok |-> TRUE, out |-> acc]
      ELSE LET d == Head(digits) - ChZero   \* as unsigned: below '0' wraps above 9
           IN  IF d < 0 \/ d > 9 THEN [ok |-> FALSE, out |-> Fixed(<<>>, U128Limbs)]
               ELSE IF Cmp(acc, LIMIT) > 0 \/ (Cmp(acc, LIMIT) = 0 /\ d > LIMIT_DIGIT)
                 THEN [ok |-> FALSE, out |-> Fixed(<<>>, U128Limbs)]
               ELSE Accumulate(Tail(digits), WrapMulAdd(acc, 10, d, U128Limbs))

parse_decimal_to_u128_nocheck(digits) ==
  IF Len(digits) = 0 THEN [ok |-> FALSE, out |-> Fixed(<<>>, U128Limbs)]
  ELSE IF Len(digits) > MaxU128Digits THEN [ok |-> FALSE, out |-> Fixed(<<>>, U128Limbs)]
  ELSE AccumulateNoCheck(digits, Fixed(<<>>, U128Limbs))

parse_decimal_to_u128(digits) ==
  IF Len(digits) = 0 THEN [ok |-> FALSE, out |-> Fixed(<<>>, U128Limbs)]
  ELSE IF Len(digits) > MaxU128Digits THEN [ok |-> FALSE, out |-> Fixed(<<>>, U128Limbs)]
  ELSE Accumulate(digits, Fixed(<<>>, U128Limbs))

\* convert_big_integer_from_ondemand with the range test of the negative branch
\* written >= : -2^127 falls back to text
convert_big_integer_no_min(neg, sv) ==
  LET pos    == IF sv # <<>> /\ (sv[1] = 43 \/ sv[1] = ChMinus) THEN 1 ELSE 0
      digits == Drop(sv, pos)
      r      == parse_decimal_to_u128(digits)
      SIGNED_LIMIT == Fixed(Pow2(127), U128Limbs)
  IN  IF digits = <<>> THEN Raise("TypeError")
      ELSE IF ~r.ok THEN Str(sv)
      ELSE IF neg
        THEN IF Cmp(r.out, SIGNED_LIMIT) >= 0 THEN Str(sv)
             ELSE mrb_convert_number_signed(NegateFixed(r.out, U128Limbs), U128Limbs)
        ELSE mrb_convert_number_unsigned(r.out, U128Limbs)

\* neg: v.is_negative(); sv: v.raw_json(), the token with its sign
convert_big_integer_from_ondemand(neg, sv) ==
  LET pos    == IF sv # <<>> /\ (sv[1] = 43 \/ sv[1] = ChMinus) THEN 1 ELSE 0
      digits == Drop(sv, pos)
      r      == parse_decimal_to_u128(digits)
      SIGNED_LIMIT == Fixed(Pow2(127), U128Limbs)
  IN  IF digits = <<>> THEN Raise("TypeError")
      ELSE IF ~r.ok THEN Str(sv)
      ELSE IF neg
        THEN IF Cmp(r.out, SIGNED_LIMIT) > 0 THEN Str(sv)
             ELSE IF Cmp(r.out, SIGNED_LIMIT) = 0
               THEN mrb_convert_number_signed(SIGNED_LIMIT, U128Limbs)
               ELSE mrb_convert_number_signed(NegateFixed(r.out, U128Limbs), U128Limbs)
        ELSE mrb_convert_number_unsigned(r.out, U128Limbs)

\* The tokens tried: every prefix of a boundary literal with one further digit,
\* so that each length 1..MaxTokenLen and each side of 2^127, 2^128 - 1 occurs.
MaxTokenLen == 41

RECURSIVE Repeat(_, _)
Repeat(c, n) == IF n <= 0 THEN <<>> ELSE <<c>> \o Repeat(c, n - 1)

BoundaryLiterals ==
  { ToDecimal(AllOnes(U128Limbs)) \o Repeat(ChZero, 3),      \* 2^128 - 1
    ToDecimal(Pow2(127)) \o Repeat(ChZero, 3),               \* 2^127
    Repeat(ChZero + 9, MaxU128Digits + 3),
    Repeat(ChZero, MaxU128Digits + 3) }

Tokens ==
  { Take(b, n) \o <<ChZero + d>> :
      b \in BoundaryLiterals, n \in 0..(MaxTokenLen - 1), d \in 0..9 }

RawToken(neg, digits) == IF neg THEN <<ChMinus>> \o digits ELSE digits

BigInit ==
  /\ token \in Tokens
  /\ negative \in BOOLEAN
  /\ bigres = NoValue

Decode ==
  /\ bigres = NoValue
  /\ bigres' = convert_big_integer_from_ondemand(negative, RawToken(negative, token))
  /\ UNCHANGED <<token, negative>>


\* C8: the decoder's result for a token of decimal digits: the raw text when the
\* token has more than 39 digits, exceeds 2^128 - 1, or is negative beyond 2^127;
\* otherwise the Integer equal to the signed decimal value (-2^127 included).
C8_BigIntegerDecoder ==
  bigres # NoValue =>
    LET val == DecVal(token)
        raw == RawToken(negative, token)
        soft == \/ Len(token) > 39
                \/ Cmp(val, AllOnes(8)) > 0
                \/ (negative /\ Cmp(val, Pow2(127)) > 0)
    IN  /\ soft => bigres = Str(raw)
        /\ ~soft => /\ bigres.t \in {"int", "bigint"}
                    /\ bigres.mag = val
                    /\ bigres.neg = (negative /\ val # <<>>)
        /\ (negative /\ val = Norm(Pow2(127))) =>
              bigres = [Blank EXCEPT !.t = "bigint", !.neg = TRUE, !.mag = Norm(Pow2(127))]

\* a negative 39-digit token above 2^127 in magnitude and at most 2^128 - 1 was
\* decoded to text; -2^127 itself was decoded to an Integer; a positive value
\* above 2^127 was decoded to an Integer
C8_Witness ==
  /\ bigres = [Blank EXCEPT !.t = "bigint", !.neg = TRUE, !.mag = Norm(Pow2(127))]
  /\ negative
  /\ Len(token) = 39

-----------------------------------------------------------------------------
(* JSON Encoder *)

\* ASCII codes used by the JSON grammar
Ch == [quote |-> 34, backslash |-> 92, comma |-> 44, colon |-> 58,
       lbracket |-> 91, rbracket |-> 93, lbrace |-> 123, rbrace |-> 125,
       space |-> 32, plus |-> 43, slash |-> 47,
       b |-> 98, f |-> 102, n |-> 110, r |-> 114, t |-> 116, u |-> 117,
       a |-> 97, e |-> 101, l |-> 108, s |-> 115]

TextNull  == <<Ch.n, Ch.u, Ch.l, Ch.l>>
TextTrue  == <<Ch.t, Ch.r, Ch.u, Ch.e>>
TextFalse == <<Ch.f, Ch.a, Ch.l, Ch.s, Ch.e>>

HexDigitLower(d) == IF d < 10 THEN ChZero + d ELSE Ch.a + (d - 10)

\* the builder's escape of one byte
EscapeByte(c) ==
  IF c = Ch.quote THEN <<Ch.backslash, Ch.quote>>
  ELSE IF c = Ch.backslash THEN <<Ch.backslash, Ch.backslash>>
  ELSE IF c = 8  THEN <<Ch.backslash, Ch.b>>
  ELSE IF c = 12 THEN <<Ch.backslash, Ch.f>>
  ELSE IF c = 10 THEN <<Ch.backslash, Ch.n>>
  ELSE IF c = 13 THEN <<Ch.backslash, Ch.r>>
  ELSE IF c = 9  THEN <<Ch.backslash, Ch.t>>
  ELSE IF c < 32 THEN <<Ch.backslash, Ch.u, ChZero, ChZero,
                        HexDigitLower(c \div 16), HexDigitLower(c % 16)>>
  ELSE <<c>>

RECURSIVE EscapeBytes(_)
EscapeBytes(sv) == IF sv = <<>> THEN <<>> ELSE EscapeByte(Head(sv)) \o EscapeBytes(Tail(sv))

\* builder::string_builder::escape_and_append_with_quotes
escape_and_append_with_quotes(sv) == <<Ch.quote>> \o EscapeBytes(sv) \o <<Ch.quote>>

\* builder::string_builder::append(int64_t): the decimal text of an mrb_int
append_integer(v) == (IF v.neg THEN <<ChMinus>> ELSE <<>>) \o ToDecimal(v.mag)

\* the bytes up to the first NUL: what a string_view built from the pointer alone holds
RECURSIVE UpToNul(_)
UpToNul(sv) == IF sv = <<>> \/ Head(sv) = 0 THEN <<>> ELSE <<Head(sv)>> \o UpToNul(Tail(sv))

\* json_encode_string with the view built without the length
json_encode_string_cstr(v) == escape_and_append_with_quotes(UpToNul(v.s))

\* json_encode_string: the view is (RSTRING_PTR, RSTRING_LEN), every byte of the string
json_encode_string(v) == escape_and_append_with_quotes(v.s)

\* mrb_sym_str: the name of a symbol as a String
mrb_sym_str(v) == Str(v.s)

\* mrb_obj_as_string: to_s.  A big integer prints in decimal; an object of another
\* class prints the text it carries in s.
mrb_obj_as_string(v) ==
  IF v.t = "bigint" THEN Str((IF v.neg THEN <<ChMinus>> ELSE <<>>) \o ToDecimal(v.mag))
  ELSE Str(v.s)

json_encode_symbol(v) == json_encode_string(mrb_sym_str(v))

\* json_encode_float: builder.append(double); a Float carries its text
json_encode_float(v) == v.s

\* mrb_integer(v): the value of a fixnum; for a value that is not a fixnum, the
\* bits found where a fixnum keeps its value
mrb_integer(v, bits) == IF v.t = "int" THEN v ELSE bits

\* json_encode_integer
json_encode_integer(v, bits) == append_integer(mrb_integer(v, bits))

RECURSIVE json_encode(_), dump_hash_cb(_, _, _), json_encode_array_from(_, _)

\* dump_hash_cb without ctx->first: a comma before every member
RECURSIVE dump_hash_cb_comma_always(_, _, _)
dump_hash_cb_comma_always(kv, i, first) ==
  IF i > Len(kv) THEN <<>>
  ELSE <<Ch.comma>> \o json_encode(kv[i]) \o <<Ch.colon>> \o json_encode(kv[i + 1])
       \o dump_hash_cb_comma_always(kv, i + 2, FALSE)

\* mrb_hash_foreach with dump_hash_cb over the members from index i (key at i,
\* value at i + 1); first is ctx->first
dump_hash_cb(kv, i, first) ==
  IF i > Len(kv) THEN <<>>
  ELSE (IF first THEN <<>> ELSE <<Ch.comma>>)
       \o json_encode(kv[i]) \o <<Ch.colon>> \o json_encode(kv[i + 1])
       \o dump_hash_cb(kv, i + 2, FALSE)

json_encode_hash(v) == <<Ch.lbrace>> \o dump_hash_cb(v.c, 1, TRUE) \o <<Ch.rbrace>>

\* the for loop of json_encode_array, from element i (1-based here, 0-based there)
json_encode_array_from(es, i) ==
  IF i > Len(es) THEN <<>>
  ELSE <<Ch.comma>> \o json_encode(es[i]) \o json_encode_array_from(es, i + 1)

json_encode_array(v) ==
  <<Ch.lbracket>>
  \o (IF Len(v.c) > 0 THEN json_encode(v.c[1]) \o json_encode_array_from(v.c, 2) ELSE <<>>)
  \o <<Ch.rbracket>>

\* the switch on mrb_type(v)
json_encode(v) ==
  CASE v.t = "nil"   -> TextNull
    [] v.t = "false" -> TextFalse
    [] v.t = "true"  -> TextTrue
    [] v.t = "sym"   -> json_encode_symbol(v)
    [] v.t = "float" -> json_encode_float(v)
    [] v.t = "int"   -> append_integer(v)
    [] v.t = "hash"  -> json_encode_hash(v)
    [] v.t = "array" -> json_encode_array(v)
    [] v.t = "str"   -> json_encode_string(v)
    [] OTHER         -> json_encode_string(mrb_obj_as_string(v))

\* Well-formed UTF-8 (Unicode 15, table 3-7), read from position i
IsCont(s, i, lo, hi) == i <= Len(s) /\ s[i] >= lo /\ s[i] <= hi

RECURSIVE ValidUtf8From(_, _)
ValidUtf8From(s, i) ==
  IF i > Len(s) THEN TRUE
  ELSE LET c == s[i] IN
    IF c < 128 THEN ValidUtf8From(s, i + 1)
    ELSE IF c >= 194 /\ c <= 223
      THEN IsCont(s, i + 1, 128, 191) /\ ValidUtf8From(s, i + 2)
    ELSE IF c >= 224 /\ c <= 239
      THEN /\ IsCont(s, i + 1, IF c = 224 THEN 160 ELSE 128, IF c = 237 THEN 159 ELSE 191)
           /\ IsCont(s, i + 2, 128, 191)
           /\ ValidUtf8From(s, i + 3)
    ELSE IF c >= 240 /\ c <= 244
      THEN /\ IsCont(s, i + 1, IF c = 240 THEN 144 ELSE 128, IF c = 244 THEN 143 ELSE 191)
           /\ IsCont(s, i + 2, 128, 191)
           /\ IsCont(s, i + 3, 128, 191)
           /\ ValidUtf8From(s, i + 4)
    ELSE FALSE

\* builder::string_builder::validate_unicode
validate_unicode(sb) == ValidUtf8From(sb, 1)

\* mrb_json_dump without the validation pass
mrb_json_dump_unvalidated(o) == Str(json_encode(o))

\* mrb_json_dump: encode, then one validation of the whole output
mrb_json_dump(o) ==
  LET sb == json_encode(o)
  IN  IF ~validate_unicode(sb) THEN Raise("JSON::UTF8Error") ELSE Str(sb)

\* DEFINE_MRB_TO_JSON: the body of a to_json method around its encoder call
DEFINE_MRB_TO_JSON(sb) ==
  IF ~validate_unicode(sb) THEN Raise("JSON::UTF8Error") ELSE Str(sb)

\* the class whose to_json a value answers with: a big integer is an Integer
to_json_class(o) ==
  CASE o.t = "str"    -> "String"
    [] o.t = "array"  -> "Array"
    [] o.t = "hash"   -> "Hash"
    [] o.t = "float"  -> "Float"
    [] o.t = "int"    -> "Integer"
    [] o.t = "bigint" -> "Integer"
    [] o.t = "true"   -> "TrueClass"
    [] o.t = "false"  -> "FalseClass"
    [] o.t = "nil"    -> "NilClass"
    [] o.t = "sym"    -> "Symbol"
    [] OTHER          -> "Object"

\* o.to_json: the method registered for the class of o; bits is what mrb_integer
\* reads from a value that is not a fixnum
to_json(o, bits) ==
  LET class == to_json_class(o) IN
  CASE class = "String"     -> DEFINE_MRB_TO_JSON(json_encode_string(o))
    [] class = "Array"      -> DEFINE_MRB_TO_JSON(json_encode_array(o))
    [] class = "Hash"       -> DEFINE_MRB_TO_JSON(json_encode_hash(o))
    [] class = "Float"      -> DEFINE_MRB_TO_JSON(json_encode_float(o))
    [] class = "Integer"    -> DEFINE_MRB_TO_JSON(json_encode_integer(o, bits))
    [] class = "TrueClass"  -> DEFINE_MRB_TO_JSON(TextTrue)
    [] class = "FalseClass" -> DEFINE_MRB_TO_JSON(TextFalse)
    [] class = "NilClass"   -> DEFINE_MRB_TO_JSON(TextNull)
    [] class = "Symbol"     -> DEFINE_MRB_TO_JSON(json_encode_symbol(o))
    [] OTHER                -> mrb_json_dump(o)

-----------------------------------------------------------------------------
(* Error Taxonomy Mapper *)

\* the classes gem_init defines under JSON with DEFINE_JSON_ERROR, and ParserError
DefinedJsonErrors ==
  { "ParserError", "TapeError", "StringError", "UnclosedStringError",
    "MemoryAllocationError", "DepthError", "UTF8Error", "NumberError",
    "CapacityError", "IncorrectTypeError", "EmptyInputError", "TAtomError",
    "FAtomError", "NAtomError", "BigIntError", "NumberOutOfRangeError",
    "UnescapedCharsError", "UninitializedError", "ParserInUseError",
    "ScalarDocumentAsValueError", "IncompleteArrayOrObjectError",
    "TrailingContentError", "OutOfCapacityError", "InsufficientPaddingError",
    "IndexOutOfBoundsError", "OutOfBoundsError", "OutOfOrderIterationError",
    "NoSuchFieldError", "IOError", "InvalidJSONPointerError",
    "InvalidURIFragmentError", "UnsupportedArchitectureError", "UnexpectedError" }

\* an E_JSON_* macro: mrb_class_get_under(mrb, JSON, name), which raises NameError
\* for a class that was never defined
E_JSON(name) == IF name \in DefinedJsonErrors THEN "JSON::" \o name ELSE "NameError"

\* the engine's error codes that raise_simdjson_error names in a case of its own
KnownCodes ==
  { "UNCLOSED_STRING", "STRING_ERROR", "UNESCAPED_CHARS", "TAPE_ERROR", "DEPTH_ERROR",
    "INCOMPLETE_ARRAY_OR_OBJECT", "TRAILING_CONTENT", "MEMALLOC", "CAPACITY",
    "OUT_OF_CAPACITY", "INSUFFICIENT_PADDING", "NUMBER_ERROR", "BIGINT_ERROR",
    "NUMBER_OUT_OF_RANGE", "T_ATOM_ERROR", "F_ATOM_ERROR", "N_ATOM_ERROR",
    "UTF8_ERROR", "EMPTY", "UNINITIALIZED", "PARSER_IN_USE",
    "SCALAR_DOCUMENT_AS_VALUE", "INCORRECT_TYPE", "NO_SUCH_FIELD",
    "INDEX_OUT_OF_BOUNDS", "OUT_OF_BOUNDS", "OUT_OF_ORDER_ITERATION", "IO_ERROR",
    "INVALID_JSON_POINTER", "INVALID_URI_FRAGMENT", "UNSUPPORTED_ARCHITECTURE",
    "UNEXPECTED_ERROR" }

\* codes the switch has no case for: the enum's end marker and values a later
\* engine may add
UnknownCodes == { "NUM_ERROR_CODES", "FUTURE_CODE_1", "FUTURE_CODE_2" }

AllCodes == KnownCodes \cup UnknownCodes \cup { "SUCCESS" }

\* raise_simdjson_error with INDEX_OUT_OF_BOUNDS and OUT_OF_BOUNDS sharing a class
raise_simdjson_error_merged(code) ==
  Raise(CASE code = "INDEX_OUT_OF_BOUNDS" -> E_JSON("OutOfBoundsError")
          [] code = "OUT_OF_BOUNDS"       -> E_JSON("OutOfBoundsError")
          [] code = "TAPE_ERROR"          -> E_JSON("TapeError")
          [] OTHER                        -> E_JSON("ParserError"))

\* raise_simdjson_error: the class of the exception raised for an engine code
raise_simdjson_error(code) ==
  Raise(CASE code = "UNCLOSED_STRING"  -> E_JSON("UnclosedStringError")
          [] code = "STRING_ERROR"     -> E_JSON("StringError")
          [] code = "UNESCAPED_CHARS"  -> E_JSON("UnescapedCharsError")
          [] code = "TAPE_ERROR"       -> E_JSON("TapeError")
          [] code = "DEPTH_ERROR"      -> E_JSON("DepthError")
          [] code = "INCOMPLETE_ARRAY_OR_OBJECT" -> E_JSON("IncompleteArrayOrObjectError")
          [] code = "TRAILING_CONTENT" -> E_JSON("TrailingContentError")
          [] code = "MEMALLOC"         -> "NoMemoryError"       \* mrb->nomem_err
          [] code = "CAPACITY"         -> E_JSON("CapacityError")
          [] code = "OUT_OF_CAPACITY"  -> E_JSON("OutOfCapacityError")
          [] code = "INSUFFICIENT_PADDING" -> E_JSON("InsufficientPaddingError")
          [] code = "NUMBER_ERROR"     -> E_JSON("NumberError")
          [] code = "BIGINT_ERROR"     -> E_JSON("BigIntError")
          [] code = "NUMBER_OUT_OF_RANGE" -> E_JSON("NumberOutOfRangeError")
          [] code = "T_ATOM_ERROR"     -> E_JSON("TAtomError")
          [] code = "F_ATOM_ERROR"     -> E_JSON("FAtomError")
          [] code = "N_ATOM_ERROR"     -> E_JSON("NAtomError")
          [] code = "UTF8_ERROR"       -> E_JSON("UTF8Error")
          [] code = "EMPTY"            -> E_JSON("EmptyInputError")
          [] code = "UNINITIALIZED"    -> E_JSON("UninitializedError")
          [] code = "PARSER_IN_USE"    -> E_JSON("ParserInUseError")
          [] code = "SCALAR_DOCUMENT_AS_VALUE" -> E_JSON("ScalarDocumentAsValueError")
          [] code = "INCORRECT_TYPE"   -> "TypeError"           \* E_TYPE_ERROR
          [] code = "NO_SUCH_FIELD"    -> E_JSON("NoSuchFieldError")
          [] code = "INDEX_OUT_OF_BOUNDS" -> "IndexError"       \* E_INDEX_ERROR
          [] code = "OUT_OF_BOUNDS"    -> E_JSON("OutOfBoundsError")
          [] code = "OUT_OF_ORDER_ITERATION" -> E_JSON("OutOfOrderIterationError")
          [] code = "IO_ERROR"         -> E_JSON("IOError")
          [] code = "INVALID_JSON_POINTER" -> E_JSON("InvalidJSONPointerError")
          [] code = "INVALID_URI_FRAGMENT" -> E_JSON("InvalidURIFragmentError")
          [] code = "UNSUPPORTED_ARCHITECTURE" -> E_JSON("UnsupportedArchitectureError")
          [] code = "UNEXPECTED_ERROR" -> E_JSON("UnexpectedError")
          [] OTHER                     -> E_JSON("ParserError"))   \* SUCCESS, default

-----------------------------------------------------------------------------
(* The parsing engine's eager (DOM) parser, as the JSON grammar (RFC 8259)   *)
(* and the engine's number classes describe it.  An element is                *)
(*   type   ARRAY OBJECT INT64 UINT64 DOUBLE STRING BOOL NULL_VALUE          *)
(*   bits   the 64-bit register of an INT64 (two's complement) or UINT64     *)
(*   flag   the value of a BOOL                                              *)
(*   sv     the decoded bytes of a STRING; the literal of a DOUBLE           *)
(*   items  the elements of an ARRAY; key, value, key, value ... of an OBJECT*)

El0 == [type |-> "NULL_VALUE", bits |-> <<>>, flag |-> FALSE, sv |-> <<>>, items |-> <<>>]

Ok(el, pos) == [err |-> "SUCCESS", el |-> el, pos |-> pos]
Err(code)   == [err |-> code, el |-> El0, pos |-> 0]

IsWs(c) == c \in {32, 9, 10, 13}

RECURSIVE SkipWs(_, _)
SkipWs(s, i) == IF i <= Len(s) /\ IsWs(s[i]) THEN SkipWs(s, i + 1) ELSE i

HexVal(c) ==
  IF IsDigit(c) THEN c - ChZero
  ELSE IF c >= 97 /\ c <= 102 THEN c - 87
  ELSE IF c >= 65 /\ c <= 70 THEN c - 55
  ELSE -1

\* the UTF-8 encoding of a code point of the Basic Multilingual Plane
Utf8Encode(cp) ==
  IF cp < 128 THEN <<cp>>
  ELSE IF cp < 2048 THEN <<192 + (cp \div 64), 128 + (cp % 64)>>
  ELSE <<224 + (cp \div 4096), 128 + ((cp \div 64) % 64), 128 + (cp % 64)>>

\* the bytes of a string token from position i (after the opening quote), decoded
RECURSIVE ScanString(_, _, _)
ScanString(s, i, acc) ==
  IF i > Len(s) THEN Err("UNCLOSED_STRING")
  ELSE LET c == s[i] IN
    IF c = Ch.quote THEN Ok([El0 EXCEPT !.type = "STRING", !.sv = acc], i + 1)
    ELSE IF c < 32 THEN Err("UNESCAPED_CHARS")
    ELSE IF c # Ch.backslash THEN ScanString(s, i + 1, Append(acc, c))
    ELSE IF i + 1 > Len(s) THEN Err("UNCLOSED_STRING")
    ELSE LET e == s[i + 1] IN
      IF e = Ch.quote \/ e = Ch.backslash \/ e = Ch.slash THEN ScanString(s, i + 2, Append(acc, e))
      ELSE IF e = Ch.b THEN ScanString(s, i + 2, Append(acc, 8))
      ELSE IF e = Ch.f THEN ScanString(s, i + 2, Append(acc, 12))
      ELSE IF e = Ch.n THEN ScanString(s, i + 2, Append(acc, 10))
      ELSE IF e = Ch.r THEN ScanString(s, i + 2, Append(acc, 13))
      ELSE IF e = Ch.t THEN ScanString(s, i + 2, Append(acc, 9))
      ELSE IF e = Ch.u /\ i + 5 <= Len(s)
                       /\ \A k \in 2..5 : HexVal(s[i + k]) >= 0
        THEN LET cp == HexVal(s[i + 2]) * 4096 + HexVal(s[i + 3]) * 256
                       + HexVal(s[i + 4]) * 16 + HexVal(s[i + 5])
             IN  IF cp >= 55296 /\ cp <= 57343 THEN Err("STRING_ERROR")
                 ELSE ScanString(s, i + 6, acc \o Utf8Encode(cp))
      ELSE Err("STRING_ERROR")

RECURSIVE DigitsEnd(_, _)
DigitsEnd(s, i) == IF i <= Len(s) /\ IsDigit(s[i]) THEN DigitsEnd(s, i + 1) ELSE i

IsStructuralOrWs(s, i) ==
  i > Len(s) \/ IsWs(s[i]) \/ s[i] \in {Ch.comma, Ch.colon, Ch.rbracket, Ch.rbrace,
                                       Ch.lbracket, Ch.lbrace}

\* a number token at position i
ScanNumber(s, i) ==
  LET neg    == s[i] = ChMinus
      d0     == IF neg THEN i + 1 ELSE i
      d1     == DigitsEnd(s, d0)
      digits == SubSeq(s, d0, d1 - 1)
      hasFrac == d1 <= Len(s) /\ s[d1] = 46
      f1     == IF hasFrac THEN DigitsEnd(s, d1 + 1) ELSE d1
      hasExp == f1 <= Len(s) /\ s[f1] \in {101, 69}
      e0     == IF hasExp /\ f1 + 1 <= Len(s) /\ s[f1 + 1] \in {Ch.plus, ChMinus}
                  THEN f1 + 2 ELSE f1 + 1
      e1     == IF hasExp THEN DigitsEnd(s, e0) ELSE f1
      mag    == DecVal(digits)
  IN  IF digits = <<>> \/ (Len(digits) > 1 /\ digits[1] = ChZero) THEN Err("NUMBER_ERROR")
      ELSE IF hasFrac /\ f1 = d1 + 1 THEN Err("NUMBER_ERROR")
      ELSE IF hasExp /\ e1 = e0 THEN Err("NUMBER_ERROR")
      ELSE IF ~IsStructuralOrWs(s, e1) THEN Err("NUMBER_ERROR")
      ELSE IF hasFrac \/ hasExp \/ (neg /\ mag = <<>>)
        THEN Ok([El0 EXCEPT !.type = "DOUBLE", !.sv = SubSeq(s, i, e1 - 1)], e1)
      ELSE IF Len(digits) > (IF neg THEN 19 ELSE 20) THEN Err("BIGINT_ERROR")
      ELSE IF neg
        THEN IF Cmp(mag, Pow2(63)) > 0 THEN Err("NUMBER_ERROR")
             ELSE Ok([El0 EXCEPT !.type = "INT64",
                                 !.bits = NegateFixed(Fixed(mag, U64Limbs), U64Limbs)], e1)
      ELSE IF Cmp(mag, Pow2(63)) < 0
        THEN Ok([El0 EXCEPT !.type = "INT64", !.bits = Fixed(mag, U64Limbs)], e1)
      ELSE IF Cmp(mag, Pow2(64)) < 0
        THEN Ok([El0 EXCEPT !.type = "UINT64", !.bits = Fixed(mag, U64Limbs)], e1)
      ELSE Err("NUMBER_ERROR")

ScanAtom(s, i, text, el, code) ==
  IF SubSeq(s, i, Min(Len(s), i + Len(text) - 1)) = text /\ IsStructuralOrWs(s, i + Len(text))
    THEN Ok(el, i + Len(text))
    ELSE Err(code)

RECURSIVE ScanValue(_, _), ScanElements(_, _, _), ScanMembers(_, _, _)

\* after '[' or after a ',' of an array: the next element, then ',' or ']'
ScanElements(s, i, acc) ==
  LET r == ScanValue(s, i) IN
  IF r.err # "SUCCESS" THEN r
  ELSE LET j == SkipWs(s, r.pos) IN
    IF j > Len(s) THEN Err("TAPE_ERROR")
    ELSE IF s[j] = Ch.comma THEN ScanElements(s, j + 1, Append(acc, r.el))
    ELSE IF s[j] = Ch.rbracket
      THEN Ok([El0 EXCEPT !.type = "ARRAY", !.items = Append(acc, r.el)], j + 1)
    ELSE Err("TAPE_ERROR")

\* after '{' or after a ',' of an object: "key" : value, then ',' or '}'
ScanMembers(s, i, acc) ==
  LET k0 == SkipWs(s, i) IN
  IF k0 > Len(s) \/ s[k0] # Ch.quote THEN Err("TAPE_ERROR")
  ELSE LET k == ScanString(s, k0 + 1, <<>>) IN
    IF k.err # "SUCCESS" THEN k
    ELSE LET c == SkipWs(s, k.pos) IN
      IF c > Len(s) \/ s[c] # Ch.colon THEN Err("TAPE_ERROR")
      ELSE LET r == ScanValue(s, c + 1) IN
        IF r.err # "SUCCESS" THEN r
        ELSE LET j == SkipWs(s, r.pos) IN
          IF j > Len(s) THEN Err("TAPE_ERROR")
          ELSE IF s[j] = Ch.comma THEN ScanMembers(s, j + 1, acc \o <<k.el, r.el>>)
          ELSE IF s[j] = Ch.rbrace
            THEN Ok([El0 EXCEPT !.type = "OBJECT", !.items = acc \o <<k.el, r.el>>], j + 1)
          ELSE Err("TAPE_ERROR")

ScanValue(s, i0) ==
  LET i == SkipWs(s, i0) IN
  IF i > Len(s) THEN Err("TAPE_ERROR")
  ELSE LET c == s[i] IN
    IF c = Ch.lbrace
      THEN LET j == SkipWs(s, i + 1) IN
           IF j <= Len(s) /\ s[j] = Ch.rbrace
             THEN Ok([El0 EXCEPT !.type = "OBJECT"], j + 1)
             ELSE ScanMembers(s, i + 1, <<>>)
    ELSE IF c = Ch.lbracket
      THEN LET j == SkipWs(s, i + 1) IN
           IF j <= Len(s) /\ s[j] = Ch.rbracket
             THEN Ok([El0 EXCEPT !.type = "ARRAY"], j + 1)
             ELSE ScanElements(s, i + 1, <<>>)
    ELSE IF c = Ch.quote THEN ScanString(s, i + 1, <<>>)
    ELSE IF c = Ch.t
      THEN ScanAtom(s, i, TextTrue, [El0 EXCEPT !.type = "BOOL", !.flag = TRUE], "T_ATOM_ERROR")
    ELSE IF c = Ch.f
      THEN ScanAtom(s, i, TextFalse, [El0 EXCEPT !.type = "BOOL"], "F_ATOM_ERROR")
    ELSE IF c = Ch.n THEN ScanAtom(s, i, TextNull, El0, "N_ATOM_ERROR")
    ELSE IF c = ChMinus \/ IsDigit(c) THEN ScanNumber(s, i)
    ELSE Err("TAPE_ERROR")

\* dom::parser::parse: the whole text is one JSON value
dom_parse(s) ==
  IF SkipWs(s, 1) > Len(s) THEN Err("EMPTY")
  ELSE IF ~ValidUtf8From(s, 1) THEN Err("UTF8_ERROR")
  ELSE LET r == ScanValue(s, 1) IN
    IF r.err # "SUCCESS" THEN r
    ELSE IF SkipWs(s, r.pos) <= Len(s) THEN Err("TAPE_ERROR")
    ELSE r

-----------------------------------------------------------------------------
(* Eager Value Converter *)

\* the index of key k among the keys of the member list kv (0 when absent)
RECURSIVE KeyIndex(_, _, _)
KeyIndex(kv, k, i) ==
  IF i > Len(kv) THEN 0
  ELSE IF kv[i] = k THEN i
  ELSE KeyIndex(kv, k, i + 2)

\* mrb_hash_set: a present key keeps its place and takes the new value, a new key
\* goes to the end
mrb_hash_set(kv, k, v) ==
  LET i == KeyIndex(kv, k, 1)
  IN  IF i = 0 THEN kv \o <<k, v>> ELSE [kv EXCEPT ![i + 1] = v]

convert_key_as_str(sv) == Str(sv)
convert_key_as_sym(sv) == Sym(sv)

\* the first raised exception among the values es, or NoValue
RECURSIVE FirstRaise(_)
FirstRaise(es) ==
  IF es = <<>> THEN NoValue
  ELSE IF IsRaise(Head(es)) THEN Head(es)
  ELSE FirstRaise(Tail(es))

RECURSIVE convert_element(_, _), convert_array_from(_, _, _, _), convert_object_from(_, _, _, _)

\* the for loop of convert_array from item i, ary holding the elements pushed so far
convert_array_from(items, i, ary, symbolize) ==
  IF i > Len(items) THEN Arr(ary)
  ELSE LET v == convert_element(items[i], symbolize)
       IN  IF IsRaise(v) THEN v
           ELSE convert_array_from(items, i + 1, Append(ary, v), symbolize)

convert_array(el, symbolize) == convert_array_from(el.items, 1, <<>>, symbolize)

\* the for loop of convert_object from member i, hash holding the members set so far
convert_object_from(items, i, hash, symbolize) ==
  IF i > Len(items) THEN Hash(hash)
  ELSE LET key == IF symbolize THEN convert_key_as_sym(items[i].sv)
                               ELSE convert_key_as_str(items[i].sv)
           val == convert_element(items[i + 1], symbolize)
       IN  IF IsRaise(val) THEN val
           ELSE convert_object_from(items, i + 2, mrb_hash_set(hash, key, val), symbolize)

\* convert_object with the key converter fixed to strings below the top level
convert_object_top_only(el, symbolize) ==
  IF symbolize
    THEN LET h == convert_object_from(el.items, 1, <<>>, FALSE)
         IN  IF IsRaise(h) THEN h
             ELSE Hash([i \in 1..Len(h.c) |->
                          IF i % 2 = 1 THEN convert_key_as_sym(h.c[i].s) ELSE h.c[i]])
    ELSE convert_object_from(el.items, 1, <<>>, FALSE)

convert_object(el, symbolize) == convert_object_from(el.items, 1, <<>>, symbolize)

Float(lit) == [Blank EXCEPT !.t = "float", !.s = lit]

\* the UINT64 case of convert_element reading the element as int64_t
convert_uint64_as_int64(el) == mrb_convert_number_signed(el.bits, U64Limbs)

convert_uint64(el) == mrb_convert_number_unsigned(el.bits, U64Limbs)

convert_element(el, symbolize) ==
  CASE el.type = "ARRAY"      -> convert_array(el, symbolize)
    [] el.type = "OBJECT"     -> convert_object(el, symbolize)
    [] el.type = "INT64"      -> mrb_convert_number_signed(el.bits, U64Limbs)
    [] el.type = "UINT64"     -> convert_uint64(el)
    [] el.type = "DOUBLE"     -> Float(el.sv)
    [] el.type = "STRING"     -> Str(el.sv)
    [] el.type = "BOOL"       -> IF el.flag THEN True ELSE False
    [] el.type = "NULL_VALUE" -> Nil
    [] OTHER                  -> Raise("TypeError")

\* mrb_json_parse: parse the view of str, raise the mapped error or convert
mrb_json_parse(str, symbolize) ==
  LET result == dom_parse(str.s)
  IN  IF result.err # "SUCCESS" THEN raise_simdjson_error(result.err)
      ELSE convert_element(result.el, symbolize)

\* mrb_json_parse_m: kw is the symbolize_names keyword, "undef" when not given
mrb_json_parse_m(str, kw) ==
  mrb_json_parse(str, IF kw # "undef" THEN kw \notin {"false", "nil"} ELSE FALSE)

-----------------------------------------------------------------------------
(* JSON.dump and JSON.parse on bounded inputs *)

MaxStrLen == 2
MaxElems  == 2

\* every byte sequence over alphabet of length at most n
RECURSIVE SeqsUpTo(_, _)
SeqsUpTo(alphabet, n) ==
  IF n = 0 THEN { <<>> }
  ELSE LET shorter == SeqsUpTo(alphabet, n - 1)
       IN  shorter \cup { Append(x, c) : x \in shorter, c \in alphabet }

\* NUL, tab, 0x1f, quote, backslash, 'a', and the two bytes of U+00E9
StrAlphabet == {0, 9, 31, Ch.quote, Ch.backslash, Ch.a, 195, 169}

StringPool ==
  SeqsUpTo(StrAlphabet, MaxStrLen)
  \cup { <<c>> : c \in 0..255 }
  \cup { <<8, 12, 10, 13, 9>>, <<1, 2, 31>>,
         <<Ch.quote, 8, 206, 187, 240, 159, 152, 128, 10>>,   \* "\"\b" + U+03BB U+1F600 + "\n"
         <<226, 130, 172>>,                                   \* U+20AC
         <<226, 130>>, <<192, 128>>, <<237, 160, 128>>, <<244, 144, 128, 128>> }

IntegerPool ==
  { Integer(FALSE, <<>>), Integer(FALSE, <<1>>), Integer(TRUE, <<1>>), Integer(FALSE, <<42>>),
    Integer(FALSE, <<0, 1>>),                                     \* 65536
    Integer(FALSE, Fixed(AllOnes(U64Limbs - 1), U64Limbs - 1) \o <<Base \div 2 - 1>>),  \* INT64_MAX
    Integer(TRUE, Pow2(63)),                                      \* INT64_MIN
    Integer(FALSE, Pow2(63)),                                     \* 2^63
    Integer(FALSE, AllOnes(U64Limbs)),                            \* 2^64 - 1
    Integer(FALSE, Pow2(64)), Integer(TRUE, Pow2(64)),
    Integer(FALSE, Pow2(127)), Integer(TRUE, Pow2(127)),
    Integer(FALSE, AllOnes(U128Limbs)) }

\* an object of a class the encoder has no case for, carrying its to_s text
Other(text) == [Blank EXCEPT !.t = "object", !.s = text]

Scalars ==
  {Nil, True, False} \cup IntegerPool
  \cup { Str(b) : b \in StringPool }
  \cup { Sym(b) : b \in {<<Ch.a>>, <<195, 169>>, <<195>>, <<Ch.quote>>} }
  \cup { Other(<<Ch.a>>), Other(<<169>>) }
  \cup { Float(<<49, 46, 53>>) }                                  \* 1.5

\* the scalars put into containers
Members ==
  { Nil, True, Integer(FALSE, <<42>>), Integer(TRUE, <<1>>), Integer(FALSE, Pow2(63)),
    Str(<<>>), Str(<<Ch.a>>), Str(<<195, 169>>), Str(<<195>>), Str(<<Ch.quote, 10>>) }

HashKeys ==
  { Str(<<Ch.a>>), Str(<<Ch.b>>), Str(<<195>>), Sym(<<Ch.a>>), Sym(<<Ch.b>>),
    Integer(FALSE, <<42>>) }

HashValues == { Nil, Integer(FALSE, <<1>>), Str(<<Ch.a>>), Str(<<169>>) }

\* member lists key, value, ... of at most n members with distinct keys
RECURSIVE MemberLists(_, _, _)
MemberLists(keys, values, n) ==
  IF n = 0 THEN { <<>> }
  ELSE LET shorter == MemberLists(keys, values, n - 1)
       IN  shorter \cup { kv \o <<k, v>> : kv \in shorter, k \in keys, v \in values }

DistinctKeys(kv) == \A i, j \in 1..Len(kv) : (i % 2 = 1 /\ j % 2 = 1 /\ i # j) => kv[i] # kv[j]

Level1 ==
  { Arr(es) : es \in SeqsUpTo(Members, MaxElems) }
  \cup { Hash(kv) : kv \in { l \in MemberLists(HashKeys, HashValues, MaxElems) : DistinctKeys(l) } }

Wrap(x) ==
  { Arr(<<x>>), Arr(<<Nil, x>>), Hash(<<Str(<<Ch.a>>), x>>), Hash(<<Sym(<<Ch.b>>), x>>) }

Level2 == UNION { Wrap(x) : x \in { y \in Level1 : Len(y.c) <= 2 } }
Level3 == { Arr(<<x>>) : x \in { y \in Level2 : Len(y.c) = 1 } }
           \cup { Hash(<<Str(<<Ch.b>>), x>>) : x \in { y \in Level2 : Len(y.c) = 1 } }

HostValues == Scalars \cup Level1 \cup Level2 \cup Level3

Docs ==
  {
    <<123, 34, 110, 97, 109, 101, 34, 58, 34, 65, 108, 105, 99, 101, 34, 44, 34, 97, 103, 101, 34, 58, 51, 48, 125>>,   \* {"name":"Alice","age":30}
    <<123, 34, 117, 115, 101, 114, 34, 58, 123, 34, 105, 100, 34, 58, 49, 44, 34, 110, 97, 109, 101, 34, 58, 34, 66, 111, 98, 34, 125, 125>>,   \* {"user":{"id":1,"name":"Bob"}}
    <<123, 34, 97, 34, 58, 49, 44, 34, 98, 34, 58, 50, 125>>,   \* {"a":1,"b":2}
    <<123, 125>>,   \* {}
    <<91, 93>>,   \* []
    <<91, 116, 114, 117, 101, 44, 32, 110, 117, 108, 108, 44, 32, 52, 50, 44, 32, 34, 104, 105, 34, 93>>,   \* [true, null, 42, "hi"]
    <<123, 34, 97, 34, 58, 49, 44, 34, 98, 34, 58, 50, 44, 34, 97, 34, 58, 51, 125>>,   \* {"a":1,"b":2,"a":3}
    <<123, 34, 98, 34, 58, 123, 34, 97, 34, 58, 49, 44, 34, 99, 34, 58, 50, 44, 34, 97, 34, 58, 51, 125, 44, 34, 98, 34, 58, 91, 93, 125>>,   \* {"b":{"a":1,"c":2,"a":3},"b":[]}
    <<123, 34, 97, 34, 58, 123, 34, 98, 34, 58, 123, 34, 99, 34, 58, 49, 125, 125, 44, 34, 100, 34, 58, 91, 123, 34, 101, 34, 58, 50, 125, 93, 125>>,   \* {"a":{"b":{"c":1}},"d":[{"e":2}]}
    <<123, 34, 97, 34, 58, 49, 44, 125>>,   \* {"a":1,}
    <<123, 107, 101, 121, 58, 34, 118, 97, 108, 117, 101, 34, 125>>,   \* {key:"value"}
    <<116, 114, 117, 101, 32, 103, 97, 114, 98, 97, 103, 101>>,   \* true garbage
    <<34, 76, 105, 110, 101, 92, 113, 66, 114, 101, 97, 107, 34>>,   \* "Line\\qBreak"
    <<34, 117, 110, 116, 101, 114, 109, 105, 110, 97, 116, 101, 100>>,   \* "unterminated
    <<123, 34, 120, 34, 58, 49, 50, 46, 51, 46, 52, 125>>,   \* {"x":12.3.4}
    <<>>,   \* 
    <<32, 32>>,   \*   
    <<34, 92, 120, 67, 48, 34>>,   \* "\\xC0"
    <<34, 192, 175, 34>>,   \* "\xc0\xaf"
    <<57, 50, 50, 51, 51, 55, 50, 48, 51, 54, 56, 53, 52, 55, 55, 53, 56, 48, 56>>,   \* 9223372036854775808
    <<49, 56, 52, 52, 54, 55, 52, 52, 48, 55, 51, 55, 48, 57, 53, 53, 49, 54, 49, 53>>,   \* 18446744073709551615
    <<49, 56, 52, 52, 54, 55, 52, 52, 48, 55, 51, 55, 48, 57, 53, 53, 49, 54, 49, 54>>,   \* 18446744073709551616
    <<57, 50, 50, 51, 51, 55, 50, 48, 51, 54, 56, 53, 52, 55, 55, 53, 56, 48, 55>>,   \* 9223372036854775807
    <<45, 57, 50, 50, 51, 51, 55, 50, 48, 51, 54, 56, 53, 52, 55, 55, 53, 56, 48, 56>>,   \* -9223372036854775808
    <<45, 57, 50, 50, 51, 51, 55, 50, 48, 51, 54, 56, 53, 52, 55, 55, 53, 56, 48, 57>>,   \* -9223372036854775809
    <<123, 34, 98, 105, 103, 34, 58, 57, 50, 50, 51, 51, 55, 50, 48, 51, 54, 56, 53, 52, 55, 55, 53, 56, 48, 56, 125>>,   \* {"big":9223372036854775808}
    <<91, 57, 50, 50, 51, 51, 55, 50, 48, 51, 54, 56, 53, 52, 55, 55, 53, 56, 48, 56, 44, 32, 49, 56, 52, 52, 54, 55, 52, 52, 48, 55, 51, 55, 48, 57, 53, 53, 49, 54, 49, 53, 93>>,   \* [9223372036854775808, 18446744073709551615]
    <<49, 50, 51, 52, 53, 54, 55, 56, 57, 48, 49, 50, 51, 52, 53, 54, 55, 56, 57, 48>>,   \* 12345678901234567890
    <<49, 46, 53>>,   \* 1.5
    <<116, 114, 117>>,   \* tru
    <<34, 97, 92, 110, 98, 34>>,   \* "a\\nb"
    <<34, 92, 117, 48, 48, 101, 57, 92, 117, 50, 48, 97, 99, 34>>,   \* "\\u00e9\\u20ac"
    <<32, 91, 32, 49, 32, 44, 32, 50, 32, 93, 32>>,   \*  [ 1 , 2 ] 
    <<123, 34, 195, 169, 34, 58, 34, 120, 34, 125>>,   \* {"\xc3\xa9":"x"}
    <<57, 57, 57, 57, 57, 57, 57, 57, 57, 57, 57, 57, 57, 57, 57, 57, 57, 57, 57, 57, 57>>,   \* 999999999999999999999
    <<91, 91, 91, 93, 93, 93>>,   \* [[[]]]
    <<123, 34, 97, 34, 58, 91, 93, 44, 34, 98, 34, 58, 123, 125, 125>>,   \* {"a":[],"b":{}}
    <<110, 117, 108, 108>>,   \* null
    <<102, 97, 108, 115, 101>>,   \* false
    <<45, 49>>,   \* -1
    <<48>>,   \* 0
    <<91, 49, 44, 93>>,   \* [1,]
    <<123, 34, 97, 34, 32, 49, 125>>,   \* {"a" 1}
    <<91, 49, 32, 50, 93>>,   \* [1 2]
    <<110, 117, 108>>,   \* nul
    <<102, 97, 108, 115>>,   \* fals
    <<45>>,   \* -
    <<48, 49>>,   \* 01
    <<49, 101, 53>>,   \* 1e5
    <<45, 48>>,   \* -0
    <<91, 123, 34, 120, 34, 58, 49, 125, 44, 123, 34, 120, 34, 58, 50, 125, 93>>,   \* [{"x":1},{"x":2}]
    <<34, 92, 117, 100, 56, 48, 48, 34>>,   \* "\\ud800"
    <<34, 97, 1, 34>>,   \* "a\x01"
    <<123, 34, 97, 34, 58, 123, 34, 97, 34, 58, 123, 34, 97, 34, 58, 91, 123, 34, 97, 34, 58, 49, 125, 93, 125, 125, 125>> }   \* {"a":{"a":{"a":[{"a":1}]}}}

\* integer literals around the int64_t / uint64_t boundaries, bare and as a member
UInt64Boundary ==
  { Pow2(63), BigMulAdd(Pow2(63), 1, 1), BigMulAdd(Pow2(63), 10, 7),
    <<Base - 2, Base - 1, Base - 1, Base - 1>>, AllOnes(U64Limbs),
    BigMulAdd(Pow2(62), 1, 0), Pow2(64) }

BigMember == <<Ch.lbrace, Ch.quote, Ch.b, 105, 103, Ch.quote, Ch.colon>>    \* {"big":

NumberDocs ==
  LET lits == { ToDecimal(m) : m \in UInt64Boundary }
  IN  lits \cup { BigMember \o l \o <<Ch.rbrace>> : l \in lits }

KwValues == { "undef", "true", "false", "nil" }

CodecInit ==
  /\ symbolize_names \in KwValues
  /\ parsed = NoValue
  /\ \/ obj \in HostValues /\ json = NoValue /\ cpc = "value"
     \/ obj = NoValue /\ json \in { Str(d) : d \in Docs \cup NumberDocs } /\ cpc = "text"

\* JSON.dump(obj)
Dump ==
  /\ cpc = "value"
  /\ json' = mrb_json_dump(obj)
  /\ cpc' = "text"
  /\ UNCHANGED <<obj, symbolize_names, parsed>>

\* what mrb_integer can read from a value that is not a fixnum
StrayBits == { i \in IntegerPool : i.t = "int" }

\* obj.to_json
ToJson ==
  /\ cpc = "value"
  /\ \E bits \in StrayBits : json' = to_json(obj, bits)
  /\ cpc' = "to_json"
  /\ UNCHANGED <<obj, symbolize_names, parsed>>

\* JSON.parse(json, symbolize_names: ...)
Parse ==
  /\ cpc = "text"
  /\ json.t = "str"
  /\ parsed' = mrb_json_parse_m(json, symbolize_names)
  /\ cpc' = "parsed"
  /\ UNCHANGED <<obj, json, symbolize_names>>


-----------------------------------------------------------------------------
(* Properties of JSON.dump and JSON.parse *)

\* the keyword as the caller sees it: given and true, or false / not given
SymbolizeOn  == symbolize_names = "true"
SymbolizeOff == symbolize_names \in {"false", "undef"}

\* the key at every odd place of every hash inside v, at any depth, is of type kind
RECURSIVE KeysOfKind(_, _)
KeysOfKind(v, kind) ==
  CASE v.t = "array" -> \A i \in 1..Len(v.c) : KeysOfKind(v.c[i], kind)
    [] v.t = "hash"  -> \A i \in 1..Len(v.c) :
                          IF i % 2 = 1 THEN v.c[i].t = kind ELSE KeysOfKind(v.c[i], kind)
    [] OTHER         -> TRUE

\* v is a Host Value of the data model: null, booleans, integers, UTF-8 strings,
\* arrays, and maps with string or symbol keys
RECURSIVE IsHostValue(_)
IsHostValue(v) ==
  CASE v.t \in {"nil", "true", "false", "int", "bigint"} -> TRUE
    [] v.t = "str"   -> ValidUtf8From(v.s, 1)
    [] v.t = "array" -> \A i \in 1..Len(v.c) : IsHostValue(v.c[i])
    [] v.t = "hash"  -> \A i \in 1..Len(v.c) :
                          IF i % 2 = 1
                            THEN v.c[i].t \in {"str", "sym"} /\ ValidUtf8From(v.c[i].s, 1)
                            ELSE IsHostValue(v.c[i])
    [] OTHER         -> FALSE

RECURSIVE HasBigInt(_)
HasBigInt(v) ==
  \/ v.t = "bigint"
  \/ v.t \in {"array", "hash"} /\ \E i \in 1..Len(v.c) : HasBigInt(v.c[i])

KeyKindMatches(v) ==
  \/ SymbolizeOn /\ KeysOfKind(v, "sym")
  \/ SymbolizeOff /\ KeysOfKind(v, "str")

\* C1: Parse(Dump(v)) is structurally equal to v for every Host Value v whose key
\* kind matches the symbolize_names setting.
C1_RoundTrip ==
  (cpc = "parsed" /\ obj # NoValue /\ IsHostValue(obj) /\ KeyKindMatches(obj))
    => parsed = obj

\* the round trip of the values that hold no big integer
RoundTripWithoutBigInt ==
  (cpc = "parsed" /\ obj # NoValue /\ IsHostValue(obj) /\ KeyKindMatches(obj)
     /\ ~HasBigInt(obj))
    => parsed = obj

\* the keys of the member list items in the order of their first occurrence
RECURSIVE FirstKeys(_, _, _)
FirstKeys(items, i, seen) ==
  IF i > Len(items) THEN seen
  ELSE IF \E k \in 1..Len(seen) : seen[k] = items[i].sv THEN FirstKeys(items, i + 2, seen)
  ELSE FirstKeys(items, i + 2, Append(seen, items[i].sv))

\* the place of the last member of items whose key is k (0 when there is none)
RECURSIVE LastMember(_, _, _, _)
LastMember(items, k, i, found) ==
  IF i > Len(items) THEN found
  ELSE LastMember(items, k, i + 2, IF items[i].sv = k THEN i ELSE found)

\* the maps of v list the keys of the document element el in document order
RECURSIVE KeyOrderFollows(_, _)
KeyOrderFollows(v, el) ==
  CASE el.type = "ARRAY" ->
         /\ v.t = "array" /\ Len(v.c) = Len(el.items)
         /\ \A i \in 1..Len(v.c) : KeyOrderFollows(v.c[i], el.items[i])
    [] el.type = "OBJECT" ->
         LET keys == FirstKeys(el.items, 1, <<>>) IN
         /\ v.t = "hash" /\ Len(v.c) = 2 * Len(keys)
         /\ \A k \in 1..Len(keys) :
              /\ v.c[2 * k - 1].s = keys[k]
              /\ KeyOrderFollows(v.c[2 * k], el.items[LastMember(el.items, keys[k], 1, 0) + 1])
    [] OTHER -> TRUE

\* C5: Parse with symbolize_names true yields a symbol for every key at every depth,
\* Parse with symbolize_names false or omitted yields a string for every key, and
\* the keys of every map are in document order.
C5_SymbolizeUniform ==
  (cpc = "parsed" /\ ~IsRaise(parsed)) =>
    /\ SymbolizeOn  => KeysOfKind(parsed, "sym")
    /\ SymbolizeOff => KeysOfKind(parsed, "str")
    /\ KeyOrderFollows(parsed, dom_parse(json.s).el)

\* a parsed map with symbol keys that holds a map with two keys
C5_Witness ==
  /\ cpc = "parsed" /\ SymbolizeOn /\ parsed.t = "hash"
  /\ \E i \in 1..Len(parsed.c) :
       i % 2 = 0 /\ parsed.c[i].t = "hash" /\ Len(parsed.c[i].c) = 4
                 /\ parsed.c[i].c[1].t = "sym"

\* the escape of each byte, as the escaping rules list it
ShortEscape ==
  [c \in {Ch.quote, Ch.backslash, 8, 12, 10, 13, 9} |->
     CASE c = Ch.quote     -> <<Ch.backslash, Ch.quote>>
       [] c = Ch.backslash -> <<Ch.backslash, Ch.backslash>>
       [] c = 8            -> <<Ch.backslash, Ch.b>>
       [] c = 12           -> <<Ch.backslash, Ch.f>>
       [] c = 10           -> <<Ch.backslash, Ch.n>>
       [] c = 13           -> <<Ch.backslash, Ch.r>>
       [] c = 9            -> <<Ch.backslash, Ch.t>>]

LowerHex == <<48, 49, 50, 51, 52, 53, 54, 55, 56, 57, 97, 98, 99, 100, 101, 102>>

ExpectedEscape(c) ==
  IF c \in DOMAIN ShortEscape THEN ShortEscape[c]
  ELSE IF c < 32
    THEN <<Ch.backslash, Ch.u, ChZero, ChZero, LowerHex[(c \div 16) + 1], LowerHex[(c % 16) + 1]>>
  ELSE <<c>>

RECURSIVE ExpectedText(_)
ExpectedText(b) == IF b = <<>> THEN <<>> ELSE ExpectedEscape(Head(b)) \o ExpectedText(Tail(b))

\* C6: Dump of a string emits it between double quotes, every byte escaped by the
\* escaping rules (short escapes, \u00xx with lowercase hex below 0x20) and every
\* other byte copied unchanged.
C6_StringEscaping ==
  (cpc = "text" /\ obj.t = "str" /\ json.t = "str") =>
    json.s = <<Ch.quote>> \o ExpectedText(obj.s) \o <<Ch.quote>>

\* a dumped string holding a quote, a backspace, multi-byte UTF-8 and a newline
C6_Witness ==
  /\ cpc = "text" /\ obj.t = "str" /\ json.t = "str"
  /\ obj.s = <<Ch.quote, 8, 206, 187, 240, 159, 152, 128, 10>>

\* some string, symbol, key or to_s text inside v is not well-formed UTF-8
RECURSIVE HasIllFormed(_)
HasIllFormed(v) ==
  \/ v.t \in {"str", "sym", "object"} /\ ~ValidUtf8From(v.s, 1)
  \/ v.t \in {"array", "hash"} /\ \E i \in 1..Len(v.c) : HasIllFormed(v.c[i])

\* C7: Dump returns text only if the whole output is well-formed UTF-8, and raises
\* the UTF-8 error, returning no text, when any string or key at any depth is
\* ill-formed.
C7_DumpValidatesUtf8 ==
  (cpc = "text" /\ obj # NoValue) =>
    /\ json.t \in {"str", "raise"}
    /\ json.t = "str" => ValidUtf8From(json.s, 1)
    /\ json.t = "raise" => json.e = "JSON::UTF8Error" /\ json.s = <<>>
    /\ HasIllFormed(obj) <=> json.t = "raise"

\* Dump raised for a map below the top level whose key is ill-formed
C7_Witness ==
  /\ cpc = "text" /\ json.t = "raise" /\ obj.t \in {"array", "hash"}
  /\ \E i \in 1..Len(obj.c) :
       /\ obj.c[i].t = "hash"
       /\ \E k \in 1..Len(obj.c[i].c) : k % 2 = 1 /\ ~ValidUtf8From(obj.c[i].c[k].s, 1)

AllDigits(b) == b # <<>> /\ \A i \in 1..Len(b) : IsDigit(b[i])

\* b is an integer literal n with 2^63 <= n < 2^64
IsUInt64Literal(b) ==
  /\ AllDigits(b) /\ b[1] # ChZero /\ Len(b) <= 20
  /\ Cmp(DecVal(b), Pow2(63)) >= 0 /\ Cmp(DecVal(b), Pow2(64)) < 0

\* v is the integer of magnitude DecVal(b), positive, and no float
ExactlyUnsigned(v, b) == v.t \in {"int", "bigint"} /\ ~v.neg /\ v.mag = DecVal(b)

\* C9: eager Parse of an integer literal n with 2^63 <= n < 2^64, bare or as a map
\* member, yields an integer exactly equal to n: no float and no negative value.
C9_UInt64Boundary ==
  cpc = "parsed" =>
    /\ IsUInt64Literal(json.s) => ExactlyUnsigned(parsed, json.s)
    /\ \A n \in Len(BigMember) + 2 .. Len(json.s) :
         LET lit == SubSeq(json.s, Len(BigMember) + 1, n - 1) IN
         (/\ SubSeq(json.s, 1, Len(BigMember)) = BigMember
          /\ n = Len(json.s) /\ json.s[n] = Ch.rbrace
          /\ IsUInt64Literal(lit))
           => parsed.t = "hash" /\ Len(parsed.c) = 2 /\ ExactlyUnsigned(parsed.c[2], lit)

\* 2^64 - 1 parsed from its literal
C9_Witness ==
  /\ cpc = "parsed" /\ json.s = ToDecimal(AllOnes(U64Limbs))
  /\ parsed.t = "bigint" /\ parsed.mag = AllOnes(U64Limbs)

\* texts put one after the other with one comma between neighbours
RECURSIVE Joined(_)
Joined(texts) ==
  IF texts = <<>> THEN <<>>
  ELSE IF Len(texts) = 1 THEN texts[1]
  ELSE texts[1] \o <<Ch.comma>> \o Joined(Tail(texts))

\* the text of a value laid out from its children: an array as its children in
\* index order, a hash as its members key, colon, value in insertion order, both
\* joined by commas inside their brackets; anything else as the encoder gives it
RECURSIVE DumpLayout(_)
DumpLayout(v) ==
  CASE v.t = "array" ->
         <<Ch.lbracket>>
         \o Joined([i \in 1..Len(v.c) |-> DumpLayout(v.c[i])])
         \o <<Ch.rbracket>>
    [] v.t = "hash" ->
         <<Ch.lbrace>>
         \o Joined([k \in 1..(Len(v.c) \div 2) |->
                      DumpLayout(v.c[2 * k - 1]) \o <<Ch.colon>> \o DumpLayout(v.c[2 * k])])
         \o <<Ch.rbrace>>
    [] OTHER -> json_encode(v)

\* C14: JSON.dump of an array or hash emits the children in index / insertion
\* order with one comma between neighbours and none before the first or after
\* the last, a hash member as key, colon, value, an empty array as [] and an
\* empty hash as {}, at every depth.
C14_DumpLayout ==
  (cpc = "text" /\ obj # NoValue /\ obj.t \in {"array", "hash"}) =>
    /\ json_encode(obj) = DumpLayout(obj)
    /\ json.t = "str" => json.s = DumpLayout(obj)
    /\ (obj.c = <<>> /\ obj.t = "array") => json = Str(<<Ch.lbracket, Ch.rbracket>>)
    /\ (obj.c = <<>> /\ obj.t = "hash") => json = Str(<<Ch.lbrace, Ch.rbrace>>)

\* a hash was dumped whose value is an array of two children
C14_Witness ==
  /\ cpc = "text" /\ obj # NoValue /\ obj.t = "hash" /\ json.t = "str"
  /\ Len(obj.c) = 2 /\ obj.c[2].t = "array" /\ Len(obj.c[2].c) = 2

\* the text starts and ends with a quotation mark
InQuotes(text) == Len(text) >= 2 /\ text[1] = Ch.quote /\ text[Len(text)] = Ch.quote

\* every key of every hash inside v, at any depth, is emitted between quotation
\* marks
RECURSIVE KeysQuoted(_)
KeysQuoted(v) ==
  CASE v.t = "array" -> \A i \in 1..Len(v.c) : KeysQuoted(v.c[i])
    [] v.t = "hash"  -> \A i \in 1..Len(v.c) :
                          IF i % 2 = 1 THEN InQuotes(json_encode(v.c[i])) ELSE KeysQuoted(v.c[i])
    [] OTHER         -> TRUE

\* C25: for every hash given to JSON.dump, at every depth, each key is emitted as
\* a quoted JSON string, and the text JSON.dump returns is well-formed: JSON.parse
\* takes it without raising.
C25_KeysQuoted ==
  /\ (obj # NoValue /\ cpc = "text" /\ json.t = "str") => KeysQuoted(obj)
  /\ (obj # NoValue /\ cpc = "parsed") => parsed.t # "raise"

\* what does hold: the text JSON.dump returns for a value whose hash keys are all
\* strings or symbols parses without raising
DumpOfStringKeysParses ==
  (obj # NoValue /\ cpc = "parsed" /\ KeysQuoted(obj)) => parsed.t # "raise"

\* C13: for a value of every kind, value.to_json returns the text JSON.dump(value)
\* returns, and raises JSON::UTF8Error whenever JSON.dump(value) raises it.
C13_ToJsonIsDump == cpc = "to_json" => json = mrb_json_dump(obj)

\* the same for the values that are not a big integer
ToJsonIsDumpOfFixnums == (cpc = "to_json" /\ obj.t # "bigint") => json = mrb_json_dump(obj)

-----------------------------------------------------------------------------
(* Buffer Preparation.  An RString is                                       *)
(*   addr    RSTRING_PTR, an address                                        *)
(*   len     RSTRING_LEN                                                    *)
(*   capa    RSTRING_CAPA, the capacity the string reports                  *)
(*   alloc   the bytes of the allocation at addr (the content, the reported *)
(*           capacity and the terminating NUL are inside it)                *)
(*   frozen  mrb_frozen_p                                                   *)

SIMDJSON_PADDING == 64
pagesize == 4096

SizeMax == AllOnes(U64Limbs)                       \* SIZE_MAX

SizeMaxLessPadding == <<Base - 1 - SIMDJSON_PADDING>> \o AllOnes(U64Limbs - 1)

\* a size_t that fits two limbs, as limbs
SizeT(n) == Norm(<<n % Base, n \div Base>>)

\* need_allocation with the page test admitting offset + PADDING = pagesize
need_allocation_inclusive(buf, len, capa) ==
  IF mrb_debug THEN TRUE
  ELSE IF capa >= len + SIMDJSON_PADDING THEN FALSE
  ELSE LET end    == buf + len - 1
           offset == end % pagesize
       IN  IF offset + SIMDJSON_PADDING <= pagesize THEN FALSE ELSE TRUE

need_allocation(buf, len, capa) ==
  IF mrb_debug THEN TRUE
  ELSE IF capa >= len + SIMDJSON_PADDING THEN FALSE
  ELSE LET end    == buf + len - 1
           offset == end % pagesize
       IN  IF offset + SIMDJSON_PADDING < pagesize THEN FALSE ELSE TRUE

\* a view: its kind, address, length and stated capacity; the string afterwards
\* (alloc, frozen, capa); and order, in which the call evaluated len + PADDING
\* ("sum") and tested len against SIZE_MAX - PADDING ("check")
NoView == [kind |-> "none", addr |-> 0, len |-> 0, capacity |-> 0, alloc |-> 0,
           frozen |-> FALSE, capa |-> 0, order |-> <<>>]

\* the view over the storage of string s, of the given kind and stated capacity
ViewOver(kind, s, capacity) ==
  [kind |-> kind, addr |-> s.addr, len |-> s.len, capacity |-> capacity,
   alloc |-> s.alloc, frozen |-> s.frozen, capa |-> s.capa, order |-> <<>>]

\* simdjson_safe_view_from_mrb_string that looks at mrb_frozen_p before it looks
\* at zero-copy
simdjson_safe_view_frozen_first(s, zc, fresh) ==
  LET len      == s.len
      required == len + SIMDJSON_PADDING
  IN  IF s.frozen
        THEN [ViewOver("owned", s, len + SIMDJSON_PADDING) EXCEPT
                !.addr = fresh, !.alloc = len + SIMDJSON_PADDING]
      ELSE IF zc /\ ~need_allocation(s.addr, len, s.capa)
        THEN ViewOver("borrowed", [s EXCEPT !.frozen = TRUE], len + SIMDJSON_PADDING)
      ELSE IF s.capa < required
        THEN ViewOver("grown", [s EXCEPT !.addr = fresh, !.capa = required,
                                         !.alloc = required + 1, !.frozen = TRUE],
                      required)
      ELSE ViewOver("in_place", s, required)

\* simdjson_safe_view_from_mrb_string; fresh is the address a new allocation
\* (the padded_string, or the resized string) gets
simdjson_safe_view_from_mrb_string(s, zc, fresh) ==
  LET len      == s.len
      required == len + SIMDJSON_PADDING
      \* need_allocation is called when zero-copy is on, and adds at line 40
      \* unless the build has MRB_DEBUG
      tested   == IF zc /\ ~mrb_debug THEN <<"sum">> ELSE <<>>
  IN  IF zc /\ ~need_allocation(s.addr, len, s.capa)
        THEN [ViewOver("borrowed", [s EXCEPT !.frozen = TRUE], len + SIMDJSON_PADDING)
                EXCEPT !.order = tested \o <<"sum">>]
      ELSE IF s.frozen
        THEN \* jsonbuffer = padded_string(ptr, len): len + PADDING bytes of its own
             [ViewOver("owned", s, len + SIMDJSON_PADDING) EXCEPT
                !.addr = fresh, !.alloc = len + SIMDJSON_PADDING, !.order = tested]
      ELSE IF Cmp(SizeT(len), SizeMaxLessPadding) > 0
        THEN [ViewOver("RuntimeError", s, 0) EXCEPT !.order = tested \o <<"check">>]
      ELSE IF s.capa < required
        THEN \* mrb_str_resize, mrb_obj_freeze, RSTR_SET_LEN
             [ViewOver("grown", [s EXCEPT !.addr = fresh, !.capa = required,
                                          !.alloc = required + 1, !.frozen = TRUE],
                       required)
                EXCEPT !.order = tested \o <<"check", "sum">>]
      ELSE [ViewOver("in_place", s, required) EXCEPT !.order = tested \o <<"check", "sum">>]

MaxBufLen == 3

PageBase == 2 * pagesize

\* offsets in a page: its start, and every place near its end
BufOffsets ==
  {0, 1, 16} \cup ((pagesize - SIMDJSON_PADDING - MaxBufLen - 2) .. (pagesize - 1))

Capacities(len) ==
  {0, len, len + SIMDJSON_PADDING - 1, len + SIMDJSON_PADDING, len + SIMDJSON_PADDING + 1}

FreshAddrs == { PageBase + pagesize + o : o \in {0, 16, pagesize - 32} }

BufInit ==
  /\ \E addr \in { PageBase + o : o \in BufOffsets }, len \in 0..MaxBufLen, frozen \in BOOLEAN :
       \E capa \in Capacities(len) :
         rstring = [addr |-> addr, len |-> len, capa |-> capa,
                alloc |-> Max(capa, len) + 1, frozen |-> frozen]
  /\ zero_copy \in BOOLEAN
  /\ mrb_debug \in BOOLEAN
  /\ view = NoView

Prepare ==
  /\ view.kind = "none"
  /\ \E fresh \in FreshAddrs : view' = simdjson_safe_view_from_mrb_string(rstring, zero_copy, fresh)
  /\ UNCHANGED <<rstring, zero_copy, mrb_debug>>

\* the bytes that can be read from addr: to the end of the page that holds the
\* last byte of the allocation
Accessible(addr, alloc) == ((addr + alloc - 1) \div pagesize + 1) * pagesize - addr

\* C3: every Buffer View returned has at least len + PADDING accessible bytes; a
\* borrowed view is returned only when the reported capacity is at least
\* len + PADDING or the PADDING bytes after the last logical byte lie in that
\* byte's page; every other view is over an owned padded copy or over storage of
\* capacity at least len + PADDING.
C3_PaddedView ==
  (view.kind \notin {"none", "RuntimeError"}) =>
    /\ view.len = rstring.len
    /\ view.capacity = view.len + SIMDJSON_PADDING
    /\ Accessible(view.addr, view.alloc) >= view.len + SIMDJSON_PADDING
    /\ view.kind = "borrowed" =>
         /\ view.addr = rstring.addr /\ zero_copy
         /\ \/ rstring.capa >= rstring.len + SIMDJSON_PADDING
            \/ (rstring.addr + rstring.len - 1) \div pagesize
                 = (rstring.addr + rstring.len - 1 + SIMDJSON_PADDING) \div pagesize
    /\ view.kind # "borrowed" =>
         \/ view.kind = "owned" /\ view.alloc >= view.len + SIMDJSON_PADDING
         \/ view.kind \in {"grown", "in_place"} /\ view.capa >= view.len + SIMDJSON_PADDING

\* a borrowed view of an empty string whose padding ends on the last byte of the
\* page, the reported capacity being too small
C3_Witness ==
  /\ view.kind = "borrowed" /\ rstring.len = 0 /\ rstring.capa < SIMDJSON_PADDING
  /\ (rstring.addr + SIMDJSON_PADDING - 1) % pagesize = pagesize - 1

\* the view is over the string's own storage, as it is when the call returns
AliasesString == view.kind \in {"borrowed", "grown", "in_place"}

\* the string's storage is padded as need_allocation wants it: the build has no
\* MRB_DEBUG, and the reported capacity is at least len + PADDING or the PADDING
\* bytes after the last byte lie in that byte's page
SafelyPadded ==
  /\ ~mrb_debug
  /\ \/ rstring.capa >= rstring.len + SIMDJSON_PADDING
     \/ (rstring.addr + rstring.len - 1) \div pagesize
          = (rstring.addr + rstring.len - 1 + SIMDJSON_PADDING) \div pagesize

\* C17: JSON.parse leaves the caller's string as it found it: when the view is
\* made, and so when mrb_json_parse returns or raises (it does nothing to the
\* string after that, 292-298), the string's length and its being frozen or not
\* are what they were before the call.
C17_InputLeftAsFound ==
  view.kind # "none" =>
    /\ view.len = rstring.len
    /\ view.frozen = rstring.frozen

\* what the call does leave alone: the length, and a frozen string's storage
InputLengthKept ==
  view.kind # "none" =>
    /\ view.len = rstring.len
    /\ rstring.frozen => view.frozen /\ view.capa = rstring.capa
    /\ (view.frozen # rstring.frozen) <=> (view.kind \in {"borrowed", "grown"} /\ ~rstring.frozen)

\* C18 as stated: for a frozen string the view is over an owned padded copy and
\* never over the string's storage, whatever zero-copy, capacity and address.
C18_FrozenAlwaysCopied ==
  (view.kind # "none" /\ rstring.frozen) => (view.kind = "owned" /\ view.addr # rstring.addr)

\* C18 amended: for a frozen string the view is over the string's storage exactly
\* when zero-copy is on and the storage is padded as need_allocation wants it, and
\* over an owned padded copy otherwise; the string is never resized and no size
\* error is raised.
C18_FrozenCopiedUnlessZeroCopy ==
  (view.kind # "none" /\ rstring.frozen) =>
    /\ view.kind \in {"owned", "borrowed"}
    /\ view.kind = "borrowed" <=> (zero_copy /\ SafelyPadded)
    /\ view.kind = "borrowed" => view.addr = rstring.addr /\ view.alloc = rstring.alloc
    /\ view.kind = "owned" =>
         view.addr # rstring.addr /\ view.alloc = rstring.len + SIMDJSON_PADDING
    /\ view.frozen /\ view.capa = rstring.capa

\* a frozen string of too small a reported capacity was given with zero-copy on
\* and the view is over its storage
C18_Witness ==
  /\ rstring.frozen /\ zero_copy /\ view.kind = "borrowed"
  /\ rstring.capa < rstring.len + SIMDJSON_PADDING

\* C19: whenever the view is over the string's own storage, the string is frozen
\* when the call returns.
C19_AliasedStringFrozen == AliasesString => view.frozen

\* the same for the views made with zero-copy on, or after growing the string
AliasedStringFrozenUnlessInPlace == (AliasesString /\ view.kind # "in_place") => view.frozen

\* C20: the call evaluates len + PADDING only after it has tested len against
\* SIZE_MAX - PADDING, on every path.
C20_SumAfterCheck ==
  \A i \in 1..Len(view.order) :
    view.order[i] = "sum" => \E j \in 1..(i - 1) : view.order[j] = "check"

\* the same on the path that tests: zero-copy off, string not frozen
SumAfterCheckInPlace ==
  (view.kind # "none" /\ ~zero_copy /\ ~rstring.frozen) =>
    /\ view.order # <<>> /\ view.order[1] = "check"
    /\ view.kind # "RuntimeError"

-----------------------------------------------------------------------------
(* Lazy Document.  A method call on the document leaves in call              *)
(*   op      the method                                                      *)
(*   dirty   need_to_reparse when the method was entered                     *)
(*   steps   what the method did, in order: "iterate", "clear_dirty", the    *)
(*           engine operation of the method, "convert", "set_dirty",         *)
(*           "raise", "throw", "return"                                      *)
(*   site    where the engine reported the error that ended the call:        *)
(*           "iterate", "lookup", "checked" (a conversion whose result the   *)
(*           code tests), "unchecked" (a conversion whose result the code    *)
(*           takes as a value), or "none"                                    *)
(*   code    that error code, or "SUCCESS"                                   *)
(*   raised  the class of the exception that left the method, or ""          *)

NoCall == [op |-> "none", dirty |-> FALSE, steps |-> <<>>, site |-> "none",
           code |-> "SUCCESS", raised |-> ""]

\* the outcome of a part of a method: whether the method is over, the flag, the
\* steps taken, and the error and exception if one ended it
Outcome(done, flag, steps, site, code, raised) ==
  [done |-> done, flag |-> flag, steps |-> steps, site |-> site, code |-> code,
   raised |-> raised]

\* raise_simdjson_error_with_reparse, reached at the given site
raise_simdjson_error_with_reparse(steps, site, code) ==
  Outcome(TRUE, TRUE, steps \o <<"set_dirty", "raise">>, site, code,
          raise_simdjson_error(code).e)

\* mrb_json_doc_get that clears the flag before it runs the parse step
mrb_json_doc_get_clear_first(flag, iter) ==
  IF ~flag THEN Outcome(FALSE, flag, <<>>, "none", "SUCCESS", "")
  ELSE IF iter # "SUCCESS"
    THEN Outcome(TRUE, FALSE, <<"clear_dirty", "iterate", "raise">>, "iterate", iter,
                 raise_simdjson_error(iter).e)
  ELSE Outcome(FALSE, FALSE, <<"clear_dirty", "iterate">>, "none", "SUCCESS", "")

\* mrb_json_doc_get; iter is what parser.iterate returns if it is called
mrb_json_doc_get(flag, iter) ==
  IF ~flag THEN Outcome(FALSE, flag, <<>>, "none", "SUCCESS", "")
  ELSE IF iter # "SUCCESS"
    THEN raise_simdjson_error_with_reparse(<<"iterate">>, "iterate", iter)
  ELSE Outcome(FALSE, FALSE, <<"iterate", "clear_dirty">>, "none", "SUCCESS", "")

\* what converting the value found can meet: nothing, an engine error at a result
\* the code tests (raw_json, get_number_type, get_uint64, get_int64, get_double,
\* get_string), or an engine error at a result the code takes as a value (type(),
\* get_bool(), the elements of a range-for, unescaped_key(), field.value())
ConvSites == {"checked", "unchecked"}

\* the exception the engine throws when a failed result is taken as a value
SimdjsonException == "simdjson::simdjson_error"

\* convert_ondemand_value_to_mrb after steps
convert_ondemand_value_to_mrb(g, steps, site, code) ==
  IF code = "SUCCESS" THEN Outcome(TRUE, g.flag, steps \o <<"convert", "return">>, "none", code, "")
  ELSE IF site = "checked"
    THEN raise_simdjson_error_with_reparse(steps \o <<"convert">>, site, code)
  ELSE Outcome(TRUE, g.flag, steps \o <<"convert", "throw">>, site, code, SimdjsonException)

\* an accessor: mrb_json_doc_get, the engine operation op, the conversion
accessor(op, flag, iter, look, site, conv) ==
  LET g == mrb_json_doc_get(flag, iter)
  IN  IF g.done THEN g
      ELSE IF look # "SUCCESS"
        THEN raise_simdjson_error_with_reparse(g.steps \o <<op>>, "lookup", look)
      ELSE convert_ondemand_value_to_mrb(g, g.steps \o <<op>>, site, conv)

\* what the engine answers during one call: the code of parser.iterate, of the
\* method's own operation and of the conversion, the first failure ending the call
EngineRuns ==
  LET ok == [iter |-> "SUCCESS", look |-> "SUCCESS", site |-> "checked", conv |-> "SUCCESS"]
  IN  { [ok EXCEPT !.iter = c] : c \in AllCodes }
      \cup { [ok EXCEPT !.look = c] : c \in AllCodes }
      \cup { [ok EXCEPT !.site = st, !.conv = c] : st \in ConvSites, c \in AllCodes }

Accessors == {"aref", "at", "at_pointer", "at_path", "at_path_with_wildcard", "array_each"}

DocInit == need_to_reparse = FALSE /\ dpc = "new" /\ call = NoCall

Finish(op, r) ==
  /\ need_to_reparse' = r.flag
  /\ call' = [op |-> op, dirty |-> need_to_reparse, steps |-> r.steps, site |-> r.site,
              code |-> r.code, raised |-> r.raised]

\* JSON::Document.new(str) that prepares the buffer and leaves the parse step to
\* the first call
mrb_json_doc_initialize_unparsed ==
  /\ dpc = "new"
  /\ Finish("initialize", Outcome(TRUE, need_to_reparse, <<"return">>, "none", "SUCCESS", ""))
  /\ dpc' = "ready"

\* JSON::Document.new(str)
mrb_json_doc_initialize ==
  /\ dpc = "new"
  /\ \E iter \in AllCodes :
       IF iter # "SUCCESS"
         THEN /\ Finish("initialize",
                        raise_simdjson_error_with_reparse(<<"iterate">>, "iterate", iter))
              /\ dpc' = "failed"
         ELSE /\ Finish("initialize",
                        Outcome(TRUE, need_to_reparse, <<"iterate", "return">>, "none", iter, ""))
              /\ dpc' = "ready"

Access(op) ==
  /\ dpc = "ready"
  /\ \E run \in EngineRuns :
       Finish(op, accessor(op, need_to_reparse, run.iter, run.look, run.site, run.conv))
  /\ UNCHANGED dpc

mrb_json_doc_aref                  == Access("aref")
mrb_json_doc_at                    == Access("at")
mrb_json_doc_at_pointer            == Access("at_pointer")
mrb_json_doc_at_path               == Access("at_path")
mrb_json_doc_at_path_with_wildcard == Access("at_path_with_wildcard")
mrb_json_doc_array_each            == Access("array_each")

\* Document#iterate
mrb_json_doc_iterate ==
  /\ dpc = "ready"
  /\ \E iter \in AllCodes :
       Finish("iterate",
              IF iter # "SUCCESS"
                THEN raise_simdjson_error_with_reparse(<<"iterate">>, "iterate", iter)
                ELSE Outcome(TRUE, need_to_reparse, <<"iterate", "return">>, "none", iter, ""))
  /\ UNCHANGED dpc

\* the place of the first step named x in steps (0 when there is none)
RECURSIVE StepIndex(_, _, _)
StepIndex(steps, x, i) ==
  IF i > Len(steps) THEN 0 ELSE IF steps[i] = x THEN i ELSE StepIndex(steps, x, i + 1)

Count(steps, x) == Cardinality({ i \in 1..Len(steps) : steps[i] = x })

EndsWith(steps, tail) ==
  Len(steps) >= Len(tail) /\ SubSeq(steps, Len(steps) - Len(tail) + 1, Len(steps)) = tail

\* the discipline of the dirty flag, for the accessor calls that ended at one of
\* the given sites
DirtyDiscipline(sites) ==
  (call.op \in Accessors) =>
    /\ (call.code # "SUCCESS" /\ call.site \in sites) =>
         /\ need_to_reparse
         /\ call.raised = raise_simdjson_error(call.code).e
         /\ EndsWith(call.steps, <<"set_dirty", "raise">>)
         /\ Count(call.steps, "iterate") = (IF call.dirty THEN 1 ELSE 0)
    /\ call.dirty => call.steps[1] = "iterate"
    /\ (call.dirty /\ ~need_to_reparse) =>
         call.steps[2] = "clear_dirty" /\ call.site # "iterate"
    /\ (call.dirty /\ call.site = "iterate") => need_to_reparse /\ Len(call.steps) = 3

\* C2: an accessor that receives an engine error sets the dirty flag before
\* raising the mapped error and does not re-parse in that call; the next accessor
\* call re-runs the parse step first, and the flag is cleared only when that parse
\* step succeeds.
C2_DirtyFlagDiscipline == DirtyDiscipline({"iterate", "lookup", "checked", "unchecked"})

\* the same discipline for the engine errors the accessors test for
DirtyDisciplineWhereTested == DirtyDiscipline({"iterate", "lookup", "checked"})

\* C4: the mapper gives each known engine code a class of its own, gives every
\* other code the generic ParserError, always raises, and a method that maps an
\* error raises once, the class the mapper names, without running the parse
\* step again.
C4_ErrorTaxonomy ==
  /\ \A c1, c2 \in KnownCodes : c1 # c2 => raise_simdjson_error(c1) # raise_simdjson_error(c2)
  /\ \A c \in KnownCodes : raise_simdjson_error(c).e \notin {E_JSON("ParserError"), "NameError"}
  /\ \A c \in AllCodes \ KnownCodes : raise_simdjson_error(c).e = E_JSON("ParserError")
  /\ \A c \in AllCodes : IsRaise(raise_simdjson_error(c))
  /\ (call.raised # "" /\ call.site # "unchecked") =>
       /\ call.raised = raise_simdjson_error(call.code).e
       /\ call.code \in KnownCodes <=> call.raised # E_JSON("ParserError")
       /\ Count(call.steps, "raise") = 1 /\ call.steps[Len(call.steps)] = "raise"
       /\ StepIndex(call.steps, "iterate", 1) <= 1

\* an index lookup that met INDEX_OUT_OF_BOUNDS raised IndexError
C4_Witness ==
  /\ call.op = "at" /\ call.site = "lookup" /\ call.code = "INDEX_OUT_OF_BOUNDS"
  /\ call.raised = "IndexError"

\* C21 as stated: constructing a Document runs no parse step and raises no parse
\* error; the document is there for the first call to parse.
C21_ConstructionDoesNotParse ==
  call.op = "initialize" =>
    /\ Count(call.steps, "iterate") = 0
    /\ call.raised = ""
    /\ dpc = "ready"

\* C21 amended: constructing a Document runs the parse step at once; when it
\* fails the flag is set, the mapped error is raised and there is no document to
\* call; when it succeeds the document is ready with the flag clear, and an
\* accessor that finds the flag clear runs no parse step.
C21_ConstructionParses ==
  /\ call.op = "initialize" =>
        /\ call.steps[1] = "iterate" /\ Count(call.steps, "iterate") = 1
        /\ call.code # "SUCCESS" =>
              /\ call.raised = raise_simdjson_error(call.code).e
              /\ need_to_reparse /\ dpc = "failed"
        /\ call.code = "SUCCESS" => call.raised = "" /\ ~need_to_reparse /\ dpc = "ready"
  /\ (call.op \in Accessors /\ ~call.dirty) => Count(call.steps, "iterate") = 0
  /\ dpc = "new" <=> call.op = "none"

\* Document.new was given an empty source and raised JSON::EmptyInputError
C21_Witness ==
  /\ call.op = "initialize" /\ call.code = "EMPTY"
  /\ call.raised = E_JSON("EmptyInputError") /\ dpc = "failed"

\* JSON::ParserError and the classes gem_init defines under it
IsParserError(class) == class \in { E_JSON(name) : name \in DefinedJsonErrors }

\* C16: whatever the engine error code, the failure a Document method leaves
\* with for it is a JSON::ParserError or one of its subclasses.
C16_EveryFailureIsParserError ==
  call.raised # "" => IsParserError(call.raised)

\* the failures that are JSON::ParserErrors: those of every code but the three
\* the mapper gives a class of the host's, where the code tests the engine's result
ParserErrorButHostClasses ==
  /\ \A code \in AllCodes \ {"MEMALLOC", "INCORRECT_TYPE", "INDEX_OUT_OF_BOUNDS"} :
       IsParserError(raise_simdjson_error(code).e)
  /\ (call.raised # "" /\ call.site # "unchecked"
        /\ call.code \notin {"MEMALLOC", "INCORRECT_TYPE", "INDEX_OUT_OF_BOUNDS"}) =>
       IsParserError(call.raised)

-----------------------------------------------------------------------------
(* Lazy Document sessions: one document, the cursor of doc->doc, and the     *)
(* calls made on the document from the block given to array_each.  The       *)
(* document's bytes stay what they are, so what a lookup answers is a        *)
(* function of where the cursor stands; parser.iterate                       *)
(* can fail or succeed from one call to the next (memory, or a source the    *)
(* caller changed under a view that aliases it).                             *)

\* where the cursor of doc->doc stands: at the start of the document, where
\* parser.iterate leaves it, or past it
Cursors == {"start", "moved"}

\* what the engine can answer to a lookup: a code, and where it leaves the cursor
LookupCodes == {"SUCCESS", "NO_SUCH_FIELD"}
Answers == [code : LookupCodes, next : Cursors]
Engines == [Cursors -> Answers]

\* what parser.iterate can answer
IterateCodes == {"SUCCESS", "MEMALLOC"}

\* an engine that turns away every operation on a document in use and leaves
\* the cursor where it is
InUse(eng) == [c \in DOMAIN eng |-> [code |-> "PARSER_IN_USE", next |-> c]]

\* Document#iterate that re-parses a document marked for it and marks one that
\* is not
doc_iterate_lazily(d, iter) ==
  IF iter # "SUCCESS"
    THEN [doc |-> [d EXCEPT !.need_to_reparse = TRUE], ran |-> TRUE, value |-> <<>>,
          raised |-> raise_simdjson_error(iter).e]
  ELSE IF d.need_to_reparse
    THEN [doc |-> [need_to_reparse |-> FALSE, cursor |-> "start"], ran |-> TRUE,
          value |-> <<"self">>, raised |-> ""]
  ELSE [doc |-> [d EXCEPT !.need_to_reparse = TRUE], ran |-> TRUE, value |-> <<"self">>,
        raised |-> ""]

\* mrb_json_doc_iterate on document d: the document afterwards, and what the
\* call returned or raised
doc_iterate(d, iter) ==
  IF iter # "SUCCESS"
    THEN LET r == raise_simdjson_error_with_reparse(<<"iterate">>, "iterate", iter)
         IN  [doc |-> [d EXCEPT !.need_to_reparse = r.flag], ran |-> TRUE, value |-> <<>>,
              raised |-> r.raised]
    ELSE [doc |-> [d EXCEPT !.cursor = "start"], ran |-> TRUE, value |-> <<"self">>,
          raised |-> ""]

\* an accessor on document d: mrb_json_doc_get, the lookup from where that
\* leaves the cursor, the conversion of the value found.  ran tells whether the
\* accessor's own operation was attempted; the value found is named by the
\* operation and the cursor it started from.
doc_access(op, d, iter, eng) ==
  LET g  == mrb_json_doc_get(d.need_to_reparse, iter)
      c1 == IF ~g.done /\ d.need_to_reparse THEN "start" ELSE d.cursor
      a  == eng[c1]
      r  == accessor(op, d.need_to_reparse, iter, a.code, "checked", "SUCCESS")
  IN  [doc    |-> [need_to_reparse |-> r.flag, cursor |-> IF g.done THEN c1 ELSE a.next],
       ran    |-> ~g.done,
       value  |-> IF r.raised = "" THEN <<op, c1>> ELSE <<>>,
       raised |-> r.raised]

\* what a sequence of accessor calls returns and raises, call by call
RECURSIVE run_calls(_, _, _)
run_calls(d, calls, eng) ==
  IF calls = <<>> THEN <<>>
  ELSE LET r == doc_access(Head(calls).op, d, Head(calls).iter, eng)
       IN  <<[value |-> r.value, raised |-> r.raised]>> \o run_calls(r.doc, Tail(calls), eng)

MaxCalls == 2
EachLen  == 2

\* the accessor calls of a sequence: the accessor, and what parser.iterate
\* answers if the call runs it
SeqCalls == [op : {"aref", "at"}, iter : IterateCodes]
CallSeqs == UNION { [1..n -> SeqCalls] : n \in 0..MaxCalls }

\* hist, the last call on the document:
\*   op             the method
\*   nested         the call came from the block of an array_each in progress
\*   before         the document when the method was entered
\*   after          the document when the method was left
\*   ran            the method's own operation was attempted
\*   raised         the class of the exception that left the method, or ""
\*   after_iterate  the call before it was a Document#iterate that returned, and
\*                  nothing has touched the document since
\*   reparse_failed an accessor's parse step has failed on this document before
\*                  the method was entered
NoHist == [op |-> "none", nested |-> FALSE,
           before |-> [need_to_reparse |-> FALSE, cursor |-> "start"],
           after |-> [need_to_reparse |-> FALSE, cursor |-> "start"],
           ran |-> FALSE, raised |-> "", after_iterate |-> FALSE, reparse_failed |-> FALSE]

\* the parse step of the last call, an accessor, failed
ReparseFailed(h) == h.op \in Accessors /\ h.before.need_to_reparse /\ ~h.ran

Record(op, r) ==
  hist' = [op |-> op, nested |-> lpc = "callback", before |-> lazy, after |-> lazy',
           ran |-> r.ran,
           raised |-> r.raised,
           after_iterate |-> hist.op = "iterate" /\ hist.raised = "" /\ hist.after = lazy,
           reparse_failed |-> hist.reparse_failed \/ ReparseFailed(hist)]

SessInit ==
  /\ engine \in Engines
  /\ lazy = [need_to_reparse |-> FALSE, cursor |-> "start"]
  /\ lpc = "new" /\ left = 0 /\ hist = NoHist

\* JSON::Document.new(str)
SessNew ==
  /\ lpc = "new"
  /\ \E iter \in IterateCodes :
       LET r == doc_iterate(lazy, iter)
       IN  /\ lazy' = r.doc
           /\ lpc' = IF r.raised = "" THEN "ready" ELSE "failed"
           /\ Record("initialize", r)
  /\ UNCHANGED <<engine, left>>

\* the engine as a call meets it: a call from outside a block meets the engine
\* as it is; for a call from the block of an array_each in progress the engine
\* either turns the call away or answers as ever
EnginesMet == IF lpc = "callback" THEN {engine, InUse(engine)} ELSE {engine}
IterateMet == IF lpc = "callback" THEN IterateCodes \cup {"PARSER_IN_USE"} ELSE IterateCodes

\* doc[key], doc.at(i), and array_each with a block that leaves the document
\* alone
SessAccess ==
  /\ lpc \in {"ready", "callback"}
  /\ \E op \in {"aref", "at", "array_each"}, iter \in IterateMet, eng \in EnginesMet :
       LET r == doc_access(op, lazy, iter, eng)
       IN  lazy' = r.doc /\ Record(op, r)
  /\ UNCHANGED <<engine, lpc, left>>

\* doc.iterate
SessIterate ==
  /\ lpc \in {"ready", "callback"}
  /\ \E iter \in IterateMet :
       LET r == doc_iterate(lazy, iter)
       IN  lazy' = r.doc /\ Record("iterate", r)
  /\ UNCHANGED <<engine, lpc, left>>

\* doc.array_each up to mrb_yield for the first element of an array of EachLen
\* elements
SessEachYield ==
  /\ lpc = "ready"
  /\ \E iter \in IterateCodes :
       LET r == doc_access("array_each", lazy, iter, engine)
       IN  /\ r.raised = ""
           /\ lazy' = [r.doc EXCEPT !.cursor = "moved"]
           /\ Record("array_each", r)
  /\ lpc' = "callback" /\ left' = EachLen - 1
  /\ UNCHANGED engine

\* the block returns: the loop reads the next element from the cursor and
\* yields it, or ends and array_each returns self
SessEachResume ==
  /\ lpc = "callback"
  /\ IF left > 0
       THEN /\ left' = left - 1 /\ lazy' = [lazy EXCEPT !.cursor = "moved"]
            /\ UNCHANGED lpc
       ELSE /\ lpc' = "ready" /\ UNCHANGED <<left, lazy>>
  /\ UNCHANGED <<engine, hist>>

\* the block raises: the exception leaves array_each
SessEachAbort ==
  /\ lpc = "callback"
  /\ lpc' = "ready" /\ left' = 0
  /\ UNCHANGED <<engine, lazy, hist>>

\* C11: for every document and every sequence of accessor calls, Document#iterate
\* twice in a row, both returning, and then the sequence gives the values and
\* errors that Document#iterate once and then the sequence gives; and the second
\* of two calls in a row leaves the document as it found it.
C11_IterateIdempotent ==
  LET once  == doc_iterate(lazy, "SUCCESS").doc
      twice == doc_iterate(once, "SUCCESS").doc
  IN  /\ \A calls \in CallSeqs :
           run_calls(once, calls, engine) = run_calls(twice, calls, engine)
      /\ (hist.op = "iterate" /\ hist.raised = "" /\ hist.after_iterate) =>
           hist.after = hist.before

\* Document#iterate has returned twice in a row, called from outside a block on a
\* document marked for re-parsing
C11_Witness ==
  /\ hist.op = "iterate" /\ hist.raised = "" /\ hist.after_iterate
  /\ hist.before.need_to_reparse /\ ~hist.nested

\* C22: after Document#iterate returns, whether the document was marked for
\* re-parsing or not, the cursor is at the start of the document, the mark is
\* clear, and the next accessor call runs no parse step before its own operation.
C22_IterateLeavesReady ==
  (hist.op = "iterate" /\ hist.raised = "") =>
    /\ hist.after.cursor = "start"
    /\ ~hist.after.need_to_reparse
    /\ \A iter \in IterateCodes :
         Count(mrb_json_doc_get(hist.after.need_to_reparse, iter).steps, "iterate") = 0

\* what does hold after Document#iterate returns: the cursor is at the start and
\* the mark is as the call found it
IterateKeepsMark ==
  (hist.op = "iterate" /\ hist.raised = "") =>
    /\ hist.after.cursor = "start"
    /\ hist.after.need_to_reparse = hist.before.need_to_reparse

\* an accessor call on the document ends by raising in this step: the engine
\* failed during the call, or the block of array_each raised
AccessorFails ==
  \/ hist' # hist /\ hist'.op \in Accessors /\ hist'.raised # ""
  \/ SessEachAbort

\* C23: whenever an accessor call ends by raising, whether for an engine error or
\* for an exception raised by the block of array_each while the cursor is inside
\* the array, the document is marked for re-parsing afterwards, so that the next
\* accessor call runs the parse step before it uses the cursor.
C23_FailedAccessorLeavesDirty ==
  [][AccessorFails =>
       /\ lazy'.need_to_reparse
       /\ Count(mrb_json_doc_get(lazy'.need_to_reparse, "SUCCESS").steps, "iterate") = 1]_vars

\* what does hold: an accessor call that ends with an error the engine returned
\* at a result the code tests leaves the document marked
EngineErrorLeavesDirty ==
  (hist.op \in Accessors /\ hist.raised # "") => hist.after.need_to_reparse

\* the exceptions the mapper raises for what parser.iterate can answer
IterateErrors ==
  { raise_simdjson_error(c).e : c \in (IterateCodes \cup {"PARSER_IN_USE"}) \ {"SUCCESS"} }

\* what the accessors do when the parse step of a document marked for re-parsing
\* fails: the mapped error, the accessor's own operation not attempted, the
\* document still marked and its cursor where it was
FailedReparseRaises ==
  ReparseFailed(hist) =>
    /\ hist.raised \in IterateErrors
    /\ hist.after = hist.before

C15_ReentrantCallRejected ==
  hist.nested =>
    /\ hist.raised = E_JSON("ParserInUseError")
    /\ hist.after.cursor = hist.before.cursor

-----------------------------------------------------------------------------
(* Lazy string extractor *)

\* a byte that starts a character of well-formed UTF-8
IsLead(c) == c < 128 \/ c >= 192

\* mrb_utf8_strlen: the characters in bytes
mrb_utf8_strlen(bytes) == Cardinality({ i \in 1..Len(bytes) : IsLead(bytes[i]) })

\* the bytes before character number n (from 0) of bytes, scanning from byte i
RECURSIVE chars2bytes(_, _, _)
chars2bytes(bytes, i, n) ==
  IF i > Len(bytes) THEN Len(bytes)
  ELSE IF IsLead(bytes[i]) /\ n = 0 THEN i - 1
  ELSE chars2bytes(bytes, i + 1, IF IsLead(bytes[i]) THEN n - 1 ELSE n)

\* mrb_str_substr(str, beg, len) for beg, len >= 0: characters where the build has
\* MRB_UTF8_STRING, bytes where it has not; nil when beg is past the end
mrb_str_substr(bytes, beg, len, utf8) ==
  LET clen == IF utf8 THEN mrb_utf8_strlen(bytes) ELSE Len(bytes)
      n    == Min(len, clen - beg)
  IN  IF beg > clen THEN Nil
      ELSE IF ~utf8 THEN Str(SubSeq(bytes, beg + 1, beg + n))
      ELSE LET b0 == chars2bytes(bytes, 1, beg)
               b1 == chars2bytes(bytes, 1, beg + n)
           IN  Str(SubSeq(bytes, b0 + 1, b1))

\* v.raw_json() of the string token whose opening quote is at offset loc: the
\* token with its quotes
raw_json(src, loc) ==
  LET r == ScanString(src, loc + 2, <<>>)
  IN  IF r.err # "SUCCESS" THEN r ELSE [r EXCEPT !.el.sv = SubSeq(src, loc + 1, r.pos - 1)]

\* v.get_string(): the decoded content of that token
get_string(src, loc) == ScanString(src, loc + 2, <<>>)

\* convert_string_from_ondemand with the slice taken at the byte offset, in bytes
convert_string_by_bytes(src, loc, utf8) ==
  LET raw == raw_json(src, loc).el.sv
      dec == get_string(src, loc).el.sv
  IN  IF Len(dec) = Len(raw) - 2
        THEN [val |-> Str(SubSeq(src, loc + 2, loc + 1 + Len(raw) - 2)), path |-> "fast"]
        ELSE [val |-> Str(dec), path |-> "copy"]

convert_string_from_ondemand(src, loc, utf8) ==
  LET raw_res == raw_json(src, loc) IN
  IF raw_res.err # "SUCCESS"
    THEN [val |-> raise_simdjson_error(raw_res.err), path |-> "raise"]
  ELSE
    LET raw       == raw_res.el.sv
        raw_start == SubSeq(raw, 2, Len(raw))
        raw_len   == Len(raw) - 2
        offset    == loc + 1
        fast      == mrb_str_substr(src, offset, mrb_utf8_strlen(SubSeq(raw_start, 1, raw_len)), utf8)
        decoded   == get_string(src, loc)
    IN  IF decoded.err # "SUCCESS"
          THEN [val |-> raise_simdjson_error(decoded.err), path |-> "raise"]
        ELSE IF Len(decoded.el.sv) = raw_len THEN [val |-> fast, path |-> "fast"]
        ELSE [val |-> Str(decoded.el.sv), path |-> "copy"]

MaxParts == 2

\* the pieces of a string token: 'a', U+00E9, U+20AC, and the escapes \n, \", é
TokenParts ==
  { <<Ch.a>>, <<195, 169>>, <<226, 130, 172>>, <<Ch.backslash, Ch.n>>,
    <<Ch.backslash, Ch.quote>>, <<Ch.backslash, Ch.u, ChZero, ChZero, Ch.e, 57>> }

\* the content of a token between its quotes: at most n pieces
RECURSIVE TokenTexts(_)
TokenTexts(n) ==
  IF n = 0 THEN { <<>> }
  ELSE LET shorter == TokenTexts(n - 1)
       IN  shorter \cup { x \o part : x \in shorter, part \in TokenParts }

Quoted(text) == <<Ch.quote>> \o text \o <<Ch.quote>>

\* a document and the offset of the opening quote of one of its string values:
\* ["x","y"] at either element, {"x":"y"} at the member's value
StringValues ==
  UNION { { [src |-> <<Ch.lbracket>> \o Quoted(x) \o <<Ch.comma>> \o Quoted(y) \o <<Ch.rbracket>>,
             loc |-> 1],
            [src |-> <<Ch.lbracket>> \o Quoted(x) \o <<Ch.comma>> \o Quoted(y) \o <<Ch.rbracket>>,
             loc |-> Len(x) + 4],
            [src |-> <<Ch.lbrace>> \o Quoted(x) \o <<Ch.colon>> \o Quoted(y) \o <<Ch.rbrace>>,
             loc |-> Len(x) + 4] }
          : x \in TokenTexts(MaxParts), y \in TokenTexts(1) \cup { <<Ch.a, Ch.b, Ch.colon>> } }

StrInit ==
  /\ \E sv \in StringValues : source = sv.src /\ location = sv.loc
  /\ utf8_string \in BOOLEAN
  /\ strres = [val |-> NoValue, path |-> "none"]

Extract ==
  /\ strres.path = "none"
  /\ strres' = convert_string_from_ondemand(source, location, utf8_string)
  /\ UNCHANGED <<source, location, utf8_string>>

\* the token at location holds a backslash
HasEscape == \E i \in 1..Len(raw_json(source, location).el.sv) :
               raw_json(source, location).el.sv[i] = Ch.backslash

\* C10: in lazy mode the string returned for every string token is byte-identical
\* to the engine's decoded content; the slice of the source is returned exactly
\* when the decoded length equals the raw length, which is exactly when the token
\* holds no escape, and the decoded copy otherwise.
C10_LazyString ==
  (strres.path # "none") =>
    /\ strres.val = Str(get_string(source, location).el.sv)
    /\ strres.path = "fast" <=> ~HasEscape
    /\ strres.path = "copy" <=> HasEscape

\* the same where no byte of the document is part of a multi-byte character
LazyStringOfAsciiSource ==
  (strres.path # "none" /\ \A i \in 1..Len(source) : source[i] < 128) =>
    /\ strres.val = Str(get_string(source, location).el.sv)
    /\ strres.path = "fast" <=> ~HasEscape

-----------------------------------------------------------------------------
(* GC arena.  Every object the host allocates is pushed on the arena and     *)
(* stays rooted until the arena index is set back.  arena_idx counts the     *)
(* objects pushed since the method was entered; the converters are taken     *)
(* step by step, one frame per array or map under construction:              *)
(*   kind   "array" | "object" | "wildcard" | "array_each"                   *)
(*   saved  the index mrb_gc_arena_save returned for the frame               *)
(*   n      the children of the container                                    *)
(*   todo   the children still to convert                                    *)
(* The value converted is any value of at most MaxDepth containers deep and  *)
(* at most MaxWidth children wide: its next part is chosen when the          *)
(* conversion comes to it.                                                   *)
MaxDepth == 2
MaxWidth == 4

\* who converts: JSON.parse with string keys or with symbol keys, an accessor of
\* the document, at_path_with_wildcard, array_each
Entries == {"parse", "parse_sym", "lazy", "wildcard", "array_each"}
OnDemand == {"lazy", "wildcard", "array_each"}

Leaves == {"null", "bool", "number", "string", "escaped"}

\* the objects mrb_convert_number allocates: none for a fixnum, one for a Float
\* or a big Integer
mrb_convert_number_roots == {0, 1}

\* the objects convert_element allocates for a value that is no container
convert_element_roots(leaf) ==
  CASE leaf \in {"null", "bool"} -> {0}
    [] leaf = "number"           -> mrb_convert_number_roots
    [] OTHER                     -> {1}

\* the objects convert_ondemand_value_to_mrb allocates for a value that is no
\* container: a string is cut out of doc->source, and built again from the
\* decoded bytes when it holds escapes
convert_ondemand_roots(leaf) ==
  CASE leaf \in {"null", "bool"} -> {0}
    [] leaf = "number"           -> mrb_convert_number_roots
    [] leaf = "string"           -> {1}
    [] OTHER                     -> {2}

leaf_roots(who, leaf) ==
  IF who \in OnDemand THEN convert_ondemand_roots(leaf) ELSE convert_element_roots(leaf)

\* the objects allocated for the key of a member: convert_key_as_str,
\* convert_key_as_sym, and mrb_str_new in convert_ondemand_object
key_roots(who) == IF who = "parse_sym" THEN 0 ELSE 1

\* the objects allocated while the child is attached: none by mrb_ary_push; the
\* copy mrb_hash_set may take of a string key; what the block of array_each
\* leaves on the arena when mrb_yield returns
attach_roots(who, kind) ==
  CASE kind \in {"array", "wildcard"} -> {0}
    [] kind = "object"                -> IF key_roots(who) = 0 THEN {0} ELSE {0, 1}
    [] OTHER                          -> {0, 1}

Top == frames[Len(frames)]
AfterValue == IF frames = <<>> THEN "done" ELSE "attach"
Frame(kind, saved, n) == [kind |-> kind, saved |-> saved, n |-> n, todo |-> n]

ArenaInit ==
  /\ entry \in Entries
  /\ arena_idx = 0 /\ frames = <<>> /\ apc = "entry"

\* the method is entered: mrb_json_parse and the accessors go to the converter;
\* at_path_with_wildcard makes its array and saves the index; array_each saves
\* the index
ArenaCall ==
  /\ apc = "entry"
  /\ CASE entry = "wildcard" ->
            \E n \in 0..MaxWidth :
              /\ arena_idx' = arena_idx + 1
              /\ frames' = <<Frame("wildcard", arena_idx + 1, n)>>
              /\ apc' = "loop"
       [] entry = "array_each" ->
            \E n \in 0..MaxWidth :
              /\ frames' = <<Frame("array_each", arena_idx, n)>>
              /\ apc' = "loop"
              /\ UNCHANGED arena_idx
       [] OTHER -> apc' = "value" /\ UNCHANGED <<arena_idx, frames>>
  /\ UNCHANGED entry

\* convert_element / convert_ondemand_value_to_mrb on a value that is no
\* container
ArenaLeaf ==
  /\ apc = "value"
  /\ \E leaf \in Leaves : \E r \in leaf_roots(entry, leaf) : arena_idx' = arena_idx + r
  /\ apc' = AfterValue
  /\ UNCHANGED <<entry, frames>>

\* convert_array, convert_object, convert_ondemand_array, convert_ondemand_object
\* up to the loop: the container is allocated, then the index is saved; the
\* on-demand converters return an empty container at once
ArenaContainer ==
  /\ apc = "value"
  /\ Len(frames) < MaxDepth
  /\ \E kind \in {"array", "object"}, n \in 0..MaxWidth :
       /\ arena_idx' = arena_idx + 1
       /\ IF entry \in OnDemand /\ n = 0
            THEN apc' = AfterValue /\ UNCHANGED frames
            ELSE /\ frames' = Append(frames, Frame(kind, arena_idx + 1, n))
                 /\ apc' = "loop"
  /\ UNCHANGED entry

\* the head of the loop: the next child, its key first when the container is a
\* map; or the end of the loop, where the container is returned
ArenaLoop ==
  /\ apc = "loop"
  /\ IF Top.todo > 0
       THEN /\ arena_idx' = arena_idx + (IF Top.kind = "object" THEN key_roots(entry) ELSE 0)
            /\ apc' = "value"
            /\ UNCHANGED frames
       ELSE /\ frames' = SubSeq(frames, 1, Len(frames) - 1)
            /\ apc' = IF Len(frames) = 1 THEN "done" ELSE "attach"
            /\ UNCHANGED arena_idx
  /\ UNCHANGED entry

\* mrb_ary_push, mrb_hash_set, mrb_yield
ArenaAttach ==
  /\ apc = "attach"
  /\ \E r \in attach_roots(entry, Top.kind) : arena_idx' = arena_idx + r
  /\ apc' = "restore"
  /\ UNCHANGED <<entry, frames>>

\* the loop body without its last statement
ArenaRestoreNever ==
  /\ apc = "restore"
  /\ frames' = [frames EXCEPT ![Len(frames)].todo = @ - 1]
  /\ apc' = "loop"
  /\ UNCHANGED <<entry, arena_idx>>

\* mrb_gc_arena_restore(mrb, arena), the last statement of the loop body
ArenaRestore ==
  /\ apc = "restore"
  /\ arena_idx' = Top.saved
  /\ frames' = [frames EXCEPT ![Len(frames)].todo = @ - 1]
  /\ apc' = "loop"
  /\ UNCHANGED entry

\* the constant of the bound: rooted objects per level of nesting
RootsPerLevel == 3

\* C24: during eager and lazy conversion, each time a child has been attached to
\* its array or map the arena index is back at the value saved for that parent,
\* and in every state the objects rooted since the method was entered are at
\* most RootsPerLevel for each level of nesting, however many children the
\* containers have.
C24_ArenaBounded ==
  /\ (apc = "loop" /\ frames # <<>>) => arena_idx = Top.saved
  /\ arena_idx <= RootsPerLevel * (Len(frames) + 1)
  /\ \A i \in 1..Len(frames) : frames[i].saved <= RootsPerLevel * i

\* the last child of a map of MaxWidth members, itself inside a container, has
\* been attached and the index restored
C24_Witness ==
  /\ Len(frames) = MaxDepth /\ apc = "loop"
  /\ Top.kind = "object" /\ Top.n = MaxWidth /\ Top.todo = 0
  /\ arena_idx = Top.saved

-----------------------------------------------------------------------------
(* JSON.load_lazy and the arguments of JSON::Document.new *)

\* mrb_get_args(mrb, "S", &str) on the arguments of a call, keyword arguments
\* arriving as one Hash after the positional ones: the String, or the exception
\* for a missing argument, an argument that is no String, or arguments left over
mrb_get_args_S(args) ==
  IF Len(args) < 1 THEN Raise("ArgumentError")
  ELSE IF args[1].t # "str" THEN Raise("TypeError")
  ELSE IF Len(args) > 1 THEN Raise("ArgumentError")
  ELSE args[1]

NoDocument == [raised |-> "", source |-> NoValue, need_to_reparse |-> FALSE]

\* JSON::Document.new(*args): mrb_json_doc_initialize; iter is what parser.iterate
\* returns if it is called
Document_new(args, iter) ==
  LET str == mrb_get_args_S(args)
  IN  IF IsRaise(str) THEN [NoDocument EXCEPT !.raised = str.e]
      ELSE LET r == doc_iterate([need_to_reparse |-> FALSE, cursor |-> "start"], iter)
           IN  [raised |-> r.raised, source |-> str,
                need_to_reparse |-> r.doc.need_to_reparse]

\* the keyword arguments load: true
LoadKeywords == Hash(<<Sym(<<108, 111, 97, 100>>), True>>)

\* JSON.load_lazy(source)
load_lazy(src, iter) == Document_new(<<src, LoadKeywords>>, iter)

LoadInit ==
  /\ lsource \in { Str(d) : d \in Docs }
  /\ lcall = "none" /\ newres = NoDocument

CallLoadLazy ==
  /\ lcall = "none"
  /\ \E iter \in IterateCodes : newres' = load_lazy(lsource, iter)
  /\ lcall' = "load_lazy"
  /\ UNCHANGED lsource

CallDocumentNew ==
  /\ lcall = "none"
  /\ \E iter \in IterateCodes : newres' = Document_new(<<lsource>>, iter)
  /\ lcall' = "new"
  /\ UNCHANGED lsource

\* C26: for every string source, the arguments JSON.load_lazy(source) gives to
\* the constructor are accepted, and the call ends as JSON::Document.new(source)
\* ends: with a Document over source, or with the error of the parse step.
C26_LoadLazyIsNew ==
  lcall = "load_lazy" =>
    /\ newres.raised \notin {"ArgumentError", "TypeError"}
    /\ \E iter \in IterateCodes : newres = Document_new(<<lsource>>, iter)

\* what does hold: JSON::Document.new(source) accepts its argument
NewAcceptsString ==
  lcall = "new" =>
    /\ newres.raised \notin {"ArgumentError", "TypeError"}
    /\ newres.source = lsource

-----------------------------------------------------------------------------
(* Specifications: one per component, the variables of the others at rest *)

SessIdle == /\ engine = <<>> /\ lazy = [need_to_reparse |-> FALSE, cursor |-> "start"]
            /\ lpc = "idle" /\ left = 0 /\ hist = NoHist
ArenaIdle == entry = "none" /\ arena_idx = 0 /\ frames = <<>> /\ apc = "idle"
LoadIdle  == lsource = NoValue /\ lcall = "idle" /\ newres = NoDocument
BigIdle   == token = <<>> /\ negative = FALSE /\ bigres = NoValue
CodecIdle == /\ obj = NoValue /\ json = NoValue /\ symbolize_names = "undef"
             /\ parsed = NoValue /\ cpc = "idle"
BufIdle   == /\ rstring = [addr |-> 0, len |-> 0, capa |-> 0, alloc |-> 0, frozen |-> FALSE]
             /\ zero_copy = FALSE /\ mrb_debug = FALSE /\ view = [NoView EXCEPT !.kind = "idle"]
DocIdle   == need_to_reparse = FALSE /\ dpc = "idle" /\ call = NoCall
StrIdle   == /\ source = <<>> /\ location = 0 /\ utf8_string = FALSE
             /\ strres = [val |-> NoValue, path |-> "idle"]

InitBigInt == BigInit /\ CodecIdle /\ BufIdle /\ DocIdle /\ StrIdle /\ SessIdle /\ ArenaIdle /\ LoadIdle
NextBigInt == Decode /\ UNCHANGED <<codecVars, bufVars, docVars, strVars, sessVars, arenaVars, loadVars>>
SpecBigInt == InitBigInt /\ [][NextBigInt]_vars

InitCodec == CodecInit /\ BigIdle /\ BufIdle /\ DocIdle /\ StrIdle /\ SessIdle /\ ArenaIdle /\ LoadIdle
CodecNext ==
  \/ Dump /\ UNCHANGED <<bigVars, bufVars, docVars, strVars, sessVars, arenaVars, loadVars>>
  \/ Parse /\ UNCHANGED <<bigVars, bufVars, docVars, strVars, sessVars, arenaVars, loadVars>>
  \/ ToJson /\ UNCHANGED <<bigVars, bufVars, docVars, strVars, sessVars, arenaVars, loadVars>>
SpecCodec == InitCodec /\ [][CodecNext]_vars

InitBuffer == BufInit /\ BigIdle /\ CodecIdle /\ DocIdle /\ StrIdle /\ SessIdle /\ ArenaIdle /\ LoadIdle
NextBuffer == Prepare /\ UNCHANGED <<bigVars, codecVars, docVars, strVars, sessVars, arenaVars, loadVars>>
SpecBuffer == InitBuffer /\ [][NextBuffer]_vars

InitDoc == DocInit /\ BigIdle /\ CodecIdle /\ BufIdle /\ StrIdle /\ SessIdle /\ ArenaIdle /\ LoadIdle
RestOfDoc == UNCHANGED <<bigVars, codecVars, bufVars, strVars, sessVars, arenaVars, loadVars>>
NextDoc ==
  \/ mrb_json_doc_initialize /\ RestOfDoc
  \/ mrb_json_doc_aref /\ RestOfDoc
  \/ mrb_json_doc_at /\ RestOfDoc
  \/ mrb_json_doc_at_pointer /\ RestOfDoc
  \/ mrb_json_doc_at_path /\ RestOfDoc
  \/ mrb_json_doc_at_path_with_wildcard /\ RestOfDoc
  \/ mrb_json_doc_array_each /\ RestOfDoc
  \/ mrb_json_doc_iterate /\ RestOfDoc
SpecDoc == InitDoc /\ [][NextDoc]_vars

InitString == StrInit /\ BigIdle /\ CodecIdle /\ BufIdle /\ DocIdle /\ SessIdle /\ ArenaIdle /\ LoadIdle
NextString == Extract /\ UNCHANGED <<bigVars, codecVars, bufVars, docVars, sessVars, arenaVars, loadVars>>
SpecString == InitString /\ [][NextString]_vars

InitSession == SessInit /\ BigIdle /\ CodecIdle /\ BufIdle /\ DocIdle /\ StrIdle /\ ArenaIdle /\ LoadIdle
RestOfSession == UNCHANGED <<bigVars, codecVars, bufVars, docVars, strVars, arenaVars, loadVars>>
NextSession ==
  \/ SessNew /\ RestOfSession
  \/ SessAccess /\ RestOfSession
  \/ SessIterate /\ RestOfSession
  \/ SessEachYield /\ RestOfSession
  \/ SessEachResume /\ RestOfSession
  \/ SessEachAbort /\ RestOfSession
SpecSession == InitSession /\ [][NextSession]_vars

InitArena == ArenaInit /\ BigIdle /\ CodecIdle /\ BufIdle /\ DocIdle /\ StrIdle /\ SessIdle /\ LoadIdle
RestOfArena == UNCHANGED <<bigVars, codecVars, bufVars, docVars, strVars, sessVars, loadVars>>
NextArena ==
  \/ ArenaCall /\ RestOfArena
  \/ ArenaLeaf /\ RestOfArena
  \/ ArenaContainer /\ RestOfArena
  \/ ArenaLoop /\ RestOfArena
  \/ ArenaAttach /\ RestOfArena
  \/ ArenaRestore /\ RestOfArena
SpecArena == InitArena /\ [][NextArena]_vars

InitLoad == LoadInit /\ BigIdle /\ CodecIdle /\ BufIdle /\ DocIdle /\ StrIdle /\ SessIdle /\ ArenaIdle
RestOfLoad == UNCHANGED <<bigVars, codecVars, bufVars, docVars, strVars, sessVars, arenaVars>>
NextLoad ==
  \/ CallLoadLazy /\ RestOfLoad
  \/ CallDocumentNew /\ RestOfLoad
SpecLoad == InitLoad /\ [][NextLoad]_vars

=============================================================================
